---- MODULE Spec2Model ----
(***************************************************************************)
(* Navigation engine of MotoApp (the App component of src/public/sw.js).   *)
(*                                                                         *)
(* Geometry.  A LatLng is a record [lat, lng].  Positions are laid out on  *)
(* a local planar grid whose unit is one decimetre: lng grows to the east, *)
(* lat to the north.  Every length of the program (thresholds, distances   *)
(* along the route, the simulator step of 0.8 m) is written in decimetres, *)
(* so all of them are integers.  The polylines of the route catalogue are  *)
(* made of axis-parallel segments, for which the projection of the snapper *)
(* and the distances along the route are exact in integer arithmetic.      *)
(*                                                                         *)
(* React.  A state cell set with a setter (appStatus, route, stops, ...)   *)
(* holds the latest value that was set; the values the last render showed  *)
(* (the refs the effects copy them into, the closures of the callbacks)    *)
(* are separate variables, brought up to date by the action Render.        *)
(***************************************************************************)
EXTENDS Integers, Sequences, FiniteSets, TLC

\* ------------------------------------------------------------------ bounds
StartTime == 20000
TickMs == 16000
MaxTime == 40000
MaxStrikes == 4
MaxStreak == 4
MaxSimDist == 800
MaxPlans == 1
MaxStops == 3
ShortTickMs == 50
MaxShortTime == 20100
MaxGps == 1
MaxProbes == 1
MaxTrack == 12
MaxTarget == 6

\* ------------------------------------------------------- program constants
SPEED_FACTOR == 8
passedThreshold == 100
LOOKAHEAD_BASE_METERS == 250

\* AppStatus (src/unnamed/part_001)
IDLE == "idle"
PREVIEW == "preview"
CONFIRM == "confirm"
NAVIGATING == "navigating"
REROUTING == "rerouting"
ARRIVED == "arrived"
ERROR == "error"
AppStatus == {IDLE, PREVIEW, CONFIRM, NAVIGATING, REROUTING, ARRIVED, ERROR}

\* ------------------------------------------------------------------ values
Pt(x, y) == [lat |-> y, lng |-> x]
\* the null of "coord: LatLng | null"
NoCoord == [lat |-> 0 - 1, lng |-> 0 - 1]
\* the null of "rawHeading: number | null"
NoHeading == 0 - 1
\* the null of "route: RouteResponse | null" (a route is named by its number
\* in the catalogue)
NoRoute == 0

Abs(n) == IF n < 0 THEN 0 - n ELSE n
Min(a, b) == IF a < b THEN a ELSE b
Max(a, b) == IF a > b THEN a ELSE b
\* the least r in lo..hi with r * r >= n
RECURSIVE SqrtBetween(_, _, _)
SqrtBetween(n, lo, hi) ==
  IF lo >= hi THEN hi
  ELSE LET mid == (lo + hi) \div 2
       IN  IF mid * mid >= n THEN SqrtBetween(n, lo, mid) ELSE SqrtBetween(n, mid + 1, hi)

\* ------------------------------------------------------- geo-math helpers
\* getDistance compares planar distances only; the model keeps its square.
getDistanceSq(p1, p2) ==
  (p2.lat - p1.lat) * (p2.lat - p1.lat) + (p2.lng - p1.lng) * (p2.lng - p1.lng)

\* Distance in decimetres, rounded up: exact for two points on an
\* axis-parallel line, and "d > t" keeps its truth for every integer t.
getDistanceMeters(p1, p2) ==
  LET dLat == Abs(p2.lat - p1.lat)
      dLng == Abs(p2.lng - p1.lng)
  IN  IF dLat = 0 THEN dLng
      ELSE IF dLng = 0 THEN dLat
      ELSE SqrtBetween(dLat * dLat + dLng * dLng, 0, dLat + dLng)

getBearingDelta(a, b) ==
  LET diff == Abs(a - b) % 360
  IN  IF diff > 180 THEN 360 - diff ELSE diff

\* the remainder of JavaScript: it has the sign of the dividend
Remainder(x, m) == IF x >= 0 THEN x % m ELSE 0 - ((0 - x) % m)

\* mutation of smoothAngle: the sum is not brought back into the turn
smoothAngleUnwrapped(current, target, factor) ==
  LET diff == target - current
      above == IF diff > 180 THEN diff - 360 ELSE diff
      wrapped == IF above < 0 - 180 THEN above + 360 ELSE above
  IN  current * 100 + wrapped * factor

\* smoothAngle: current and target in degrees, factor in hundredths; the
\* result is in hundredths of a degree
smoothAngle(current, target, factor) ==
  LET diff == target - current
      above == IF diff > 180 THEN diff - 360 ELSE diff
      wrapped == IF above < 0 - 180 THEN above + 360 ELSE above
  IN  Remainder(current * 100 + wrapped * factor + 36000, 36000)

\* mutation of getAdvanceThreshold: the widest window at every speed
getAdvanceThresholdWide(speedKmh) == 800

getAdvanceThreshold(speedKmh) ==
  IF speedKmh <= 10 THEN 200
  ELSE IF speedKmh <= 30 THEN 300
  ELSE IF speedKmh <= 60 THEN 500
  ELSE 800

getBearingThreshold(speedKmh) ==
  IF speedKmh <= 10 THEN 70
  ELSE IF speedKmh <= 30 THEN 55
  ELSE IF speedKmh <= 60 THEN 45
  ELSE 35

\* mutation of getOffRouteThreshold: no bucket above 60 km/h
getOffRouteThresholdCapped(speedKmh) ==
  IF speedKmh <= 10 THEN 250
  ELSE IF speedKmh <= 30 THEN 350
  ELSE 550

getOffRouteThreshold(speedKmh) ==
  IF speedKmh <= 10 THEN 250
  ELSE IF speedKmh <= 30 THEN 350
  ELSE IF speedKmh <= 60 THEN 550
  ELSE 800

\* atan2(dx, dy) in degrees from north, clockwise; exact on the eight
\* compass directions, the nearest of them elsewhere.
calculateBearing(start, end) ==
  LET dy == end.lat - start.lat
      dx == end.lng - start.lng
  IN  IF dx = 0 /\ dy >= 0 THEN 0
      ELSE IF dx = 0 THEN 180
      ELSE IF dy = 0 /\ dx > 0 THEN 90
      ELSE IF dy = 0 THEN 270
      ELSE IF dx > 0 /\ dy > 0 THEN 45
      ELSE IF dx > 0 THEN 135
      ELSE IF dy < 0 THEN 225
      ELSE 315

interpolate(p1, p2, num, den) ==
  [lat |-> p1.lat + ((p2.lat - p1.lat) * num) \div den,
   lng |-> p1.lng + ((p2.lng - p1.lng) * num) \div den]

\* ---------------------------------------------------------- route catalogue
\* What the routing provider can answer (RouteResponse of part_001): route 1
\* is a straight 200 m ride with a turn half way, route 2 a parallel street
\* 20 m to the north with no turn, route 3 a hop of 1.6 m.  Routes 4 to 6
\* have no usable index: one point, no maneuver, no point at all.  Route 7
\* has a segment of no length, corners, a maneuver anchored behind the one
\* before it and a maneuver with no anchor, and the provider puts its length
\* at twice that of its polyline.  Route 8 is the line of route 1 with two
\* maneuvers 100 m apart, half way and at the end.  Route 9 is a straight
\* line of three points, 80 m long, with a maneuver at the point in the
\* middle and the arrival at the end.
RouteData(r) ==
  CASE r = 1 -> [polyline |-> <<Pt(0, 0), Pt(1000, 0), Pt(2000, 0)>>,
                 distance |-> 2000,
                 maneuvers |-> <<[distance |-> 1000, location |-> Pt(0, 0)],
                                 [distance |-> 1000, location |-> Pt(1000, 0)],
                                 [distance |-> 0, location |-> Pt(2000, 0)]>>]
    [] r = 2 -> [polyline |-> <<Pt(0, 200), Pt(2000, 200)>>,
                 distance |-> 2000,
                 maneuvers |-> <<[distance |-> 2000, location |-> Pt(0, 200)],
                                 [distance |-> 0, location |-> Pt(2000, 200)]>>]
    [] r = 3 -> [polyline |-> <<Pt(0, 0), Pt(16, 0)>>,
                 distance |-> 16,
                 maneuvers |-> <<[distance |-> 16, location |-> NoCoord],
                                 [distance |-> 0, location |-> NoCoord]>>]
    [] r = 4 -> [polyline |-> <<Pt(0, 0)>>,
                 distance |-> 0,
                 maneuvers |-> <<[distance |-> 0, location |-> Pt(0, 0)]>>]
    [] r = 5 -> [polyline |-> <<Pt(0, 0), Pt(1000, 0)>>,
                 distance |-> 1000,
                 maneuvers |-> <<>>]
    [] r = 6 -> [polyline |-> <<>>,
                 distance |-> 0,
                 maneuvers |-> <<[distance |-> 0, location |-> NoCoord]>>]
    [] r = 7 -> [polyline |-> <<Pt(0, 0), Pt(1000, 0), Pt(1000, 0), Pt(1300, 0),
                                Pt(1300, 400), Pt(2000, 400)>>,
                 distance |-> 4800,
                 maneuvers |-> <<[distance |-> 1000, location |-> Pt(0, 0)],
                                 [distance |-> 500, location |-> Pt(1300, 400)],
                                 [distance |-> 500, location |-> Pt(1000, 0)],
                                 [distance |-> 2800, location |-> NoCoord],
                                 [distance |-> 0, location |-> Pt(2000, 400)]>>]
    [] r = 8 -> [polyline |-> <<Pt(0, 0), Pt(1000, 0), Pt(2000, 0)>>,
                 distance |-> 2000,
                 maneuvers |-> <<[distance |-> 1000, location |-> Pt(1000, 0)],
                                 [distance |-> 0, location |-> Pt(2000, 0)]>>]
    [] r = 9 -> [polyline |-> <<Pt(0, 0), Pt(400, 0), Pt(800, 0)>>,
                 distance |-> 800,
                 maneuvers |-> <<[distance |-> 400, location |-> Pt(400, 0)],
                                 [distance |-> 0, location |-> Pt(800, 0)]>>]
    [] OTHER -> [polyline |-> <<>>, distance |-> 0, maneuvers |-> <<>>]

\* the routes the provider answers a ride with, and the one short enough to
\* be simulated to its end
RideRoutes == {1, 2}
SimRoutes == {3}
\* the routes without a usable index, and the ones the index is checked on
BrokenRoutes == {4, 5, 6}
IndexRoutes == {4, 5, 6, 7}
\* the routes the maneuver tracker is followed on
TrackRoutes == {1, 8}
\* the route simulated from end to end
CruiseRoutes == {9}

\* ------------------------------------------------------------ route indexer
RECURSIVE CumulativeDistances(_, _)
CumulativeDistances(poly, n) ==
  IF n = 0 THEN <<>>
  ELSE IF n = 1 THEN <<0>>
  ELSE LET prev == CumulativeDistances(poly, n - 1)
       IN  Append(prev, prev[n - 1] + getDistanceMeters(poly[n - 1], poly[n]))

\* polylineDistancesRef of a route; <<>> stands for null
PolylineDistances(r) ==
  CumulativeDistances(RouteData(r).polyline, Len(RouteData(r).polyline))

RECURSIVE ClosestFrom(_, _, _, _, _)
ClosestFrom(point, line, i, bestIndex, bestSq) ==
  IF i > Len(line) THEN bestIndex
  ELSE LET d == getDistanceSq(line[i], point)
       IN  IF bestSq < 0 \/ d < bestSq
           THEN ClosestFrom(point, line, i + 1, i, d)
           ELSE ClosestFrom(point, line, i + 1, bestIndex, bestSq)

\* index (from 1) of the polyline vertex nearest to the point, first one wins
findClosestPolylineIndex(point, line) == ClosestFrom(point, line, 1, 1, 0 - 1)

\* index (from 1) of the vertex before the first one at or past the target
findPolylineIndexByDistance(distances, target) ==
  IF \E i \in 1..Len(distances) : distances[i] >= target
  THEN Max(1, (CHOOSE i \in 1..Len(distances) :
                 /\ distances[i] >= target
                 /\ \A j \in 1..(i - 1) : distances[j] < target) - 1)
  ELSE Max(1, Len(distances))

\* mutation of ManeuverMetaFrom: distanceAlong is not clamped to the one
\* before it
RECURSIVE ManeuverMetaFromUnclamped(_, _, _, _, _)
ManeuverMetaFromUnclamped(routeData, distances, i, cumulativeStepDist, meta) ==
  IF i > Len(routeData.maneuvers) THEN meta
  ELSE
    LET maneuver == routeData.maneuvers[i]
        total == distances[Len(distances)]
        scaled == IF routeData.distance > 0
                  THEN (cumulativeStepDist * total) \div routeData.distance
                  ELSE cumulativeStepDist
        polylineIndex == IF maneuver.location # NoCoord
                         THEN findClosestPolylineIndex(maneuver.location, routeData.polyline)
                         ELSE findPolylineIndexByDistance(distances, scaled)
        along == IF maneuver.location # NoCoord THEN distances[polylineIndex] ELSE scaled
        nextIndex == Min(Len(routeData.polyline), polylineIndex + 1)
        postBearing == calculateBearing(routeData.polyline[polylineIndex],
                                        routeData.polyline[nextIndex])
    IN  ManeuverMetaFromUnclamped(routeData, distances, i + 1,
                                  cumulativeStepDist + maneuver.distance,
                                  Append(meta, [distanceAlong |-> along,
                                                polylineIndex |-> polylineIndex,
                                                postBearing |-> postBearing]))

RECURSIVE ManeuverMetaFrom(_, _, _, _, _)
ManeuverMetaFrom(routeData, distances, i, cumulativeStepDist, meta) ==
  IF i > Len(routeData.maneuvers) THEN meta
  ELSE
    LET maneuver == routeData.maneuvers[i]
        total == distances[Len(distances)]
        scaled == IF routeData.distance > 0
                  THEN (cumulativeStepDist * total) \div routeData.distance
                  ELSE cumulativeStepDist
        polylineIndex == IF maneuver.location # NoCoord
                         THEN findClosestPolylineIndex(maneuver.location, routeData.polyline)
                         ELSE findPolylineIndexByDistance(distances, scaled)
        along == IF maneuver.location # NoCoord THEN distances[polylineIndex] ELSE scaled
        distanceAlong == IF i > 1 /\ along < meta[i - 1].distanceAlong
                         THEN meta[i - 1].distanceAlong
                         ELSE along
        nextIndex == Min(Len(routeData.polyline), polylineIndex + 1)
        postBearing == calculateBearing(routeData.polyline[polylineIndex],
                                        routeData.polyline[nextIndex])
    IN  ManeuverMetaFrom(routeData, distances, i + 1,
                         cumulativeStepDist + maneuver.distance,
                         Append(meta, [distanceAlong |-> distanceAlong,
                                       polylineIndex |-> polylineIndex,
                                       postBearing |-> postBearing]))

\* mutation of buildManeuverMeta: a polyline of one point is indexed
buildManeuverMetaOnePoint(routeData, distances) ==
  IF Len(routeData.maneuvers) = 0 \/ Len(distances) < 1 THEN <<>>
  ELSE ManeuverMetaFrom(routeData, distances, 1, 0, <<>>)

buildManeuverMeta(routeData, distances) ==
  IF Len(routeData.maneuvers) = 0 \/ Len(distances) < 2 THEN <<>>
  ELSE ManeuverMetaFrom(routeData, distances, 1, 0, <<>>)

\* maneuverMetaRef of a route
ManeuverMeta(r) == buildManeuverMeta(RouteData(r), PolylineDistances(r))

\* --------------------------------------------------------- position snapper
\* mutation of NearestFrom: the projection is not clamped to the segment
RECURSIVE NearestFromUnclamped(_, _, _, _)
NearestFromUnclamped(p, line, i, best) ==
  IF i > Len(line) - 1 THEN best
  ELSE
    LET start == line[i]
        end == line[i + 1]
        dx == end.lng - start.lng
        dy == end.lat - start.lat
        len == Abs(dx) + Abs(dy)
        num == (p.lng - start.lng) * dx + (p.lat - start.lat) * dy
        projP == [lat |-> start.lat + ((num \div len) * dy) \div len,
                  lng |-> start.lng + ((num \div len) * dx) \div len]
        dist == getDistanceSq(p, projP)
    IN  IF dx = 0 /\ dy = 0 THEN NearestFromUnclamped(p, line, i + 1, best)
        ELSE IF best.minSq < 0 \/ dist < best.minSq
        THEN NearestFromUnclamped(p, line, i + 1,
                                  [minSq |-> dist, point |-> projP,
                                   bearing |-> calculateBearing(start, end),
                                   segmentIndex |-> i])
        ELSE NearestFromUnclamped(p, line, i + 1, best)

RECURSIVE NearestFrom(_, _, _, _)
NearestFrom(p, line, i, best) ==
  IF i > Len(line) - 1 THEN best
  ELSE
    LET start == line[i]
        end == line[i + 1]
        dx == end.lng - start.lng
        dy == end.lat - start.lat
        \* t = num / (len * len); the segment is axis-parallel, so its length
        \* len is |dx| + |dy| and divides num
        len == Abs(dx) + Abs(dy)
        num == (p.lng - start.lng) * dx + (p.lat - start.lat) * dy
        clamped == Max(0, Min(len, num \div len))
        projP == [lat |-> start.lat + (clamped * dy) \div len,
                  lng |-> start.lng + (clamped * dx) \div len]
        dist == getDistanceSq(p, projP)
    IN  IF dx = 0 /\ dy = 0 THEN NearestFrom(p, line, i + 1, best)
        ELSE IF best.minSq < 0 \/ dist < best.minSq
        THEN NearestFrom(p, line, i + 1,
                         [minSq |-> dist, point |-> projP,
                          bearing |-> calculateBearing(start, end),
                          segmentIndex |-> i])
        ELSE NearestFrom(p, line, i + 1, best)

\* segmentIndex counts from 1 (the source counts from 0)
getNearestPointOnLine(p, line) ==
  NearestFrom(p, line, 1, [minSq |-> 0 - 1, point |-> p, bearing |-> 0, segmentIndex |-> 1])

\* look-ahead bearing of the simulated ride (segmentIndex counts from 1)
getLookaheadBearing(r, distances, segmentIndex, pos, lookaheadMeters) ==
  LET routeData == RouteData(r)
      n == Len(distances)
      totalUnits == IF n = 0 THEN 0 ELSE distances[n]
      segIdx == Max(1, Min(segmentIndex, Len(routeData.polyline)))
      progressUnits == distances[segIdx] + getDistanceMeters(routeData.polyline[segIdx], pos)
      target0 == Min(totalUnits, progressUnits + lookaheadMeters)
      targetUnits == IF target0 <= progressUnits /\ progressUnits < totalUnits
                     THEN Min(totalUnits, progressUnits + Max(1, totalUnits \div 1000))
                     ELSE target0
      targetIndex == IF \E i \in segIdx..n : distances[i] >= targetUnits
                     THEN CHOOSE i \in segIdx..n :
                            /\ distances[i] >= targetUnits
                            /\ \A j \in segIdx..(i - 1) : distances[j] < targetUnits
                     ELSE n
      prevIndex == Max(1, targetIndex - 1)
      segLen == distances[targetIndex] - distances[prevIndex]
      targetPoint == IF segLen > 0
                     THEN interpolate(routeData.polyline[prevIndex], routeData.polyline[targetIndex],
                                      targetUnits - distances[prevIndex], segLen)
                     ELSE routeData.polyline[prevIndex]
  IN  IF n < 2 \/ routeData.distance <= 0 \/ totalUnits = 0 THEN NoHeading
      ELSE calculateBearing(pos, targetPoint)

\* --------------------------------------------------------- maneuver tracker
\* mutation of SkipPast: one maneuver at most is skipped
SkipPastOnce(meta, activeIndex, progressDist, skipPastThreshold) ==
  IF activeIndex < Len(meta) - 1
     /\ progressDist - meta[activeIndex + 1].distanceAlong > skipPastThreshold
  THEN activeIndex + 1
  ELSE activeIndex

RECURSIVE SkipPast(_, _, _, _)
SkipPast(meta, activeIndex, progressDist, skipPastThreshold) ==
  IF activeIndex < Len(meta) - 1
     /\ progressDist - meta[activeIndex + 1].distanceAlong > skipPastThreshold
  THEN SkipPast(meta, activeIndex + 1, progressDist, skipPastThreshold)
  ELSE activeIndex

RECURSIVE Backtrack(_, _, _, _)
Backtrack(meta, activeIndex, progressDist, backtrackThreshold) ==
  IF activeIndex > 0
     /\ meta[activeIndex + 1].distanceAlong - progressDist > backtrackThreshold
  THEN Backtrack(meta, activeIndex - 1, progressDist, backtrackThreshold)
  ELSE activeIndex

\* mutation of Advance: a maneuver left behind does not advance the index
AdvanceNoPassed(meta, activeIndex, progressDist, heading, newSpeed) ==
  LET distanceToManeuver == meta[activeIndex + 1].distanceAlong - progressDist
      bearingMatch == /\ heading # NoHeading
                      /\ getBearingDelta(heading, meta[activeIndex + 1].postBearing)
                           <= getBearingThreshold(newSpeed)
      advance == distanceToManeuver <= getAdvanceThreshold(newSpeed) /\ bearingMatch
  IN  IF advance /\ activeIndex < Len(meta) - 1 THEN activeIndex + 1 ELSE activeIndex

\* mutation of Advance: the heading is not looked at
AdvanceAnyBearing(meta, activeIndex, progressDist, heading, newSpeed) ==
  LET distanceToManeuver == meta[activeIndex + 1].distanceAlong - progressDist
      advance == \/ distanceToManeuver <= 0 - passedThreshold
                 \/ distanceToManeuver <= getAdvanceThreshold(newSpeed)
  IN  IF advance /\ activeIndex < Len(meta) - 1 THEN activeIndex + 1 ELSE activeIndex

\* mutation of Advance: the advance is not held back at the last maneuver
AdvanceUnguarded(meta, activeIndex, progressDist, heading, newSpeed) ==
  LET distanceToManeuver == meta[activeIndex + 1].distanceAlong - progressDist
      bearingMatch == /\ heading # NoHeading
                      /\ getBearingDelta(heading, meta[activeIndex + 1].postBearing)
                           <= getBearingThreshold(newSpeed)
      advance == \/ distanceToManeuver <= 0 - passedThreshold
                 \/ distanceToManeuver <= getAdvanceThreshold(newSpeed) /\ bearingMatch
  IN  IF advance THEN activeIndex + 1 ELSE activeIndex

\* the advance step: the index after it, given the skip-corrected index
Advance(meta, activeIndex, progressDist, heading, newSpeed) ==
  LET distanceToManeuver == meta[activeIndex + 1].distanceAlong - progressDist
      bearingMatch == /\ heading # NoHeading
                      /\ getBearingDelta(heading, meta[activeIndex + 1].postBearing)
                           <= getBearingThreshold(newSpeed)
      advance == \/ distanceToManeuver <= 0 - passedThreshold
                 \/ distanceToManeuver <= getAdvanceThreshold(newSpeed) /\ bearingMatch
  IN  IF advance /\ activeIndex < Len(meta) - 1 THEN activeIndex + 1 ELSE activeIndex

\* The active maneuver index (from 0, as in the source) the tracker computes
\* on a fix from the index it finds in currentManeuverIndexRef.
ActiveIndex(current, meta, progressDist, heading, newSpeed) ==
  LET clamped == Min(Max(current, 0), Len(meta) - 1)
      skipped == SkipPast(meta, clamped, progressDist, getAdvanceThreshold(newSpeed) + 150)
      corrected == Backtrack(meta, skipped, progressDist, getAdvanceThreshold(newSpeed) + 300)
  IN  Advance(meta, corrected, progressDist, heading, newSpeed)

\* ------------------------------------------------------ off-route detector
\* mutation of Strikes: a near fix leaves the counter as it is
StrikesKept(counter, far) == IF far THEN counter + 1 ELSE counter

\* mutation of Strikes: the counter stops at the reroute threshold
StrikesCapped(counter, far) == IF far THEN Min(3, counter + 1) ELSE 0

\* the strike counter after the fix looked at the distance to the line
Strikes(counter, far) == IF far THEN counter + 1 ELSE 0

\* mutation of RerouteDue: the in-flight flag is not looked at
RerouteDueInFlight(counter, rerouting, nowMs, lastRerouteTime) ==
  counter >= 3 /\ nowMs - lastRerouteTime > 15000

\* mutation of RerouteDue: the cooldown is not looked at
RerouteDueNoCooldown(counter, rerouting, nowMs, lastRerouteTime) ==
  counter >= 3 /\ ~rerouting

\* mutation of RerouteDue: two strikes are enough
RerouteDueAtTwo(counter, rerouting, nowMs, lastRerouteTime) ==
  counter >= 2 /\ ~rerouting /\ nowMs - lastRerouteTime > 15000

\* the guard of the reroute branch
RerouteDue(counter, rerouting, nowMs, lastRerouteTime) ==
  counter >= 3 /\ ~rerouting /\ nowMs - lastRerouteTime > 15000

RECURSIVE ValidStops(_)
ValidStops(list) ==
  IF list = <<>> THEN <<>>
  ELSE IF Head(list).coord # NoCoord
       THEN <<Head(list)>> \o ValidStops(Tail(list))
       ELSE ValidStops(Tail(list))

Coords(list) == [i \in 1..Len(list) |-> list[i].coord]

\* the points of the reroute request
ReroutePoints(stopList, newPos) ==
  LET validStops == ValidStops(stopList)
  IN  IF Len(validStops) >= 1
      THEN IF stopList[1].coord # NoCoord
           THEN <<newPos>> \o Coords(Tail(validStops))
           ELSE <<newPos>> \o Coords(validStops)
      ELSE <<>>

\* the points of a plan request (handlePlanRide); currentPos is not modelled,
\* the fallback start stands for it
DefaultStart == Pt(0, 0)
PlanPoints(stopList) ==
  IF stopList[1].coord # NoCoord THEN Coords(ValidStops(stopList))
  ELSE <<DefaultStart>> \o Coords(ValidStops(stopList))

hasDestination(stopList) ==
  \E i \in 2..Len(stopList) : stopList[i].coord # NoCoord

\* the routing modes
FAST == "fast"
BALANCED == "balanced"
CURVY == "curvy"
RoutingMode == {FAST, BALANCED, CURVY}

\* no call of calculateRoute
NoRouteCall ==
  [stops |-> 0, mode |-> FAST, optimizeOrder |-> FALSE, at |-> "none", trips |-> 0,
   fetches |-> <<>>, answers |-> <<>>, usedMode |-> FAST, outcome |-> "none"]

\* what a route request can end in: the fetch throws, the answer has a code
\* other than Ok, it is Ok with a geometry that decodes to no point, it is
\* Ok with a path
FetchOutcomes == {"rejected", "NoRoute", "OkEmpty", "Ok"}

\* the try block of the first request throws
Failed(answer) == answer \in {"rejected", "NoRoute"}

\* fetchRoute(stops, mode): the request it sends, with the hint point
\* generateCurvyTarget puts between two stops in the curvy mode only
fetchRoute(stopCount, mode) ==
  [mode |-> mode, hints |-> IF mode = CURVY THEN stopCount - 1 ELSE 0]

\* mutation of Retried: a failure is retried in every mode
RetriedAlways(mode) == TRUE

\* the catch block of the first request sends a second one
Retried(mode) == mode = CURVY

\* what calculateRoute makes of the answer it ends with
Concluded(answer) ==
  IF answer = "Ok" THEN "route"
  ELSE IF answer = "OkEmpty" THEN "Route calculation returned empty path."
  ELSE "Route calculation failed"

\* no call of simplifyTrack
NoTrackCall == [points |-> <<>>, targetCount |-> 0, done |-> FALSE, simplified |-> <<>>]

\* the loop of simplifyTrack: the points at i, i + step, ... before the last
RECURSIVE Sampled(_, _, _)
Sampled(points, i, step) ==
  IF i < Len(points) - 1
  THEN <<points[i + 1]>> \o Sampled(points, i + step, step)
  ELSE <<>>

\* simplifyTrack(points, targetCount), for a targetCount of 2 or more
simplifyTrack(points, targetCount) ==
  IF Len(points) <= targetCount THEN points
  ELSE LET step == Len(points) \div (targetCount - 1)
       IN <<points[1]>> \o Sampled(points, step, step) \o <<points[Len(points)]>>

\* ------------------------------------------------------------------- state
VARIABLES
  now,                      \* Date.now()
  appStatus, route, stops, isSimulating, currentManeuverIndex, errorMessage,
                            \* React state: the latest value set
  appStatusRef, routeRef, renderedIsSimulating,
                            \* what the last render committed
  polylineDistancesRef, maneuverMetaRef, currentManeuverIndexRef,
  currentSegmentIndexRef, offRouteCounterRef, lastRerouteTimeRef, reroutingRef,
  pendingReroutes,          \* reroute requests not settled yet (their points)
  pendingPlans,             \* plan requests not settled yet (their number of points)
  simIntervalRef, rafPending, frameCount, distanceRef, simClosure,
  gpsActive, gpsPermissionDenied,
  pendingGps,               \* getCurrentPosition requests of requestGPSPermission
                            \* not settled yet (the closure each one holds)
  probe,                    \* the permission probe: whether its timer is set, and
                            \* its getCurrentPosition requests not settled yet
  lastStateUpdateTimeRef, pendingPosRef, pendingSpeedRef, pendingHeadingRef,
  lastPosRef, currentPos, speed, heading, currentManeuverRemainingRef,
  displayTraced,            \* whether the behaviour follows the display cells
  angleCall,                \* a call of the angle functions: its arguments and
                            \* what it returned
  trackCall,                \* a call of simplifyTrack: its arguments and what
                            \* it returned
  routeCall,                \* a call of calculateRoute: its arguments, where it
                            \* stands, the requests it sent and how it ended
  ev, rerouteLog, farRun, streak, commitLog, fed,
  lastIssued                \* the kind of the route request sent last
                            \* history of the run, read by the properties only

vars == <<now, appStatus, route, stops, isSimulating, currentManeuverIndex, errorMessage,
          appStatusRef, routeRef, renderedIsSimulating,
          polylineDistancesRef, maneuverMetaRef, currentManeuverIndexRef,
          currentSegmentIndexRef, offRouteCounterRef, lastRerouteTimeRef, reroutingRef,
          pendingReroutes, pendingPlans,
          simIntervalRef, rafPending, frameCount, distanceRef, simClosure,
          gpsActive, gpsPermissionDenied, pendingGps, probe,
          lastStateUpdateTimeRef, pendingPosRef, pendingSpeedRef, pendingHeadingRef,
          lastPosRef, currentPos, speed, heading, currentManeuverRemainingRef,
          displayTraced, angleCall, trackCall, routeCall,
          ev, rerouteLog, farRun, streak, commitLog, fed, lastIssued>>

\* the cells a render writes
renderVars == <<appStatus, route, stops, isSimulating, currentManeuverIndex,
                appStatusRef, routeRef, renderedIsSimulating,
                polylineDistancesRef, maneuverMetaRef, currentManeuverIndexRef>>
\* what a render commits and what its effects derive from it
committedVars == <<appStatusRef, routeRef, renderedIsSimulating,
                   polylineDistancesRef, maneuverMetaRef>>
detectorVars == <<offRouteCounterRef, lastRerouteTimeRef, reroutingRef, pendingReroutes>>
simVars == <<simIntervalRef, rafPending, frameCount, distanceRef, simClosure>>
fixHistory == <<rerouteLog, farRun, streak, lastIssued>>
\* The display cells: the GPS banner flags, the rider position, speed and
\* heading with the refs of their throttle, and the remaining metres.  Every
\* fix writes them and no decision of the detector or of the tracker reads
\* them, so a behaviour follows them only when displayTraced holds (it does
\* from DisplayInit on); elsewhere they stay as Init leaves them.
gpsVars == <<gpsActive, gpsPermissionDenied, pendingGps, probe>>
riderVars == <<lastStateUpdateTimeRef, pendingPosRef, pendingSpeedRef, pendingHeadingRef,
               lastPosRef, currentPos, speed, heading, commitLog>>
displayVars == <<displayTraced, angleCall, trackCall, routeCall, gpsVars, riderVars, fed>>

NoError == "null"
\* streak counts the tracked far fixes in a row (up to MaxStreak) and tells
\* which of them first issued a reroute request (0: none)
NoRun == [len |-> 0, firedAt |-> 0]
\* ev tells what the last step did: op is "fix" for a tracked fix (far: it was
\* off the route; issued: it sent a reroute request; aborted: it gave the
\* request up for lack of points; run: the streak a near fix ended; was: the
\* active index it found, where the display is followed),
\* "success" or "failure" for a settled reroute, "routeEffect" for a render
\* that rebuilt the route index, "stop" for the stop button, "none" otherwise
\* the null of "pendingSpeedRef: number | null"
NoSpeed == 0 - 1
\* the null of "currentManeuverRemainingRef: number | null"
NoRemaining == 0 - 1
\* fed tells which producer fed the last fix to updateRiderLocation ("watch",
\* "permission", "sim"; "none" before the first) and where that fix was
NoFeed == [by |-> "none", pos |-> NoCoord]
NoEvent ==
  [op |-> "none", far |-> FALSE, issued |-> FALSE, aborted |-> FALSE, run |-> NoRun, was |-> 0,
   from |-> "none"]
Event(name) == [NoEvent EXCEPT !.op = name]

InitialStops == <<[id |-> "start", coord |-> NoCoord], [id |-> "end", coord |-> NoCoord]>>
NoClosure == [stops |-> <<>>, isSimulating |-> FALSE, route |-> NoRoute]

\* the cells of the App as its first render leaves them
Construction ==
  /\ now = StartTime
  /\ appStatus = IDLE /\ route = NoRoute /\ stops = InitialStops
  /\ isSimulating = FALSE /\ currentManeuverIndex = 0 /\ errorMessage = NoError
  /\ appStatusRef = IDLE /\ routeRef = NoRoute
  /\ renderedIsSimulating = FALSE
  /\ polylineDistancesRef = <<>> /\ maneuverMetaRef = <<>>
  /\ currentManeuverIndexRef = 0 /\ currentSegmentIndexRef = 0
  /\ offRouteCounterRef = 0 /\ lastRerouteTimeRef = 0 /\ reroutingRef = FALSE
  /\ pendingReroutes = <<>> /\ pendingPlans = <<>>
  /\ simIntervalRef = 0 /\ rafPending = {} /\ frameCount = 0 /\ distanceRef = 0
  /\ simClosure = NoClosure
  /\ gpsActive = FALSE /\ gpsPermissionDenied = FALSE /\ pendingGps = <<>>
  /\ probe = [timer |-> TRUE, requests |-> 0]
  /\ lastStateUpdateTimeRef = 0 /\ pendingPosRef = NoCoord /\ pendingSpeedRef = NoSpeed
  /\ pendingHeadingRef = NoHeading /\ lastPosRef = NoCoord
  /\ currentPos = NoCoord /\ speed = 0 /\ heading = 0
  /\ currentManeuverRemainingRef = NoRemaining
  /\ ev = NoEvent /\ rerouteLog = <<>> /\ farRun = 0 /\ streak = NoRun
  /\ lastIssued = "none"
  /\ commitLog = <<>> /\ fed = NoFeed

\* no call of the angle functions is followed
NoCall == [current |-> NoHeading, target |-> NoHeading, factor |-> 0,
           smoothed |-> NoHeading, delta |-> NoHeading]

Init ==
  Construction /\ displayTraced = FALSE /\ angleCall = NoCall /\ trackCall = NoTrackCall
  /\ routeCall = NoRouteCall

\* the same start, for the behaviours that follow the display cells
DisplayInit ==
  Construction /\ displayTraced = TRUE /\ angleCall = NoCall /\ trackCall = NoTrackCall
  /\ routeCall = NoRouteCall

\* the clock moves
Tick ==
  /\ now + TickMs <= MaxTime
  /\ now' = now + TickMs
  /\ ev' = NoEvent
  /\ UNCHANGED <<displayVars, currentManeuverRemainingRef, renderVars, errorMessage,
                 currentSegmentIndexRef, detectorVars, pendingPlans, simVars, fixHistory>>

\* the clock moves by less than the throttle interval
ShortTick ==
  /\ now + ShortTickMs <= MaxShortTime
  /\ now' = now + ShortTickMs
  /\ ev' = NoEvent
  /\ UNCHANGED <<displayVars, currentManeuverRemainingRef, renderVars, errorMessage,
                 currentSegmentIndexRef, detectorVars, pendingPlans, simVars, fixHistory>>

\* --------------------------------------------------------- render + effects
\* mutation of RouteEffect: the active index survives the new route
RouteEffectKeepsIndex(r, current) ==
  [distances |-> PolylineDistances(r), meta |-> ManeuverMeta(r), index |-> current]

\* what the effect on [route] leaves in the index refs and in the active index
RouteEffect(r, current) ==
  [distances |-> PolylineDistances(r), meta |-> ManeuverMeta(r), index |-> 0]

\* what the effects on [route] and on [appStatus, route] leave in the
\* remaining metres a handler has set
RenderedRemaining(status, rt, remaining) ==
  IF rt # routeRef \/ (status # appStatusRef /\ status # NAVIGATING)
  THEN NoRemaining
  ELSE remaining

\* A render with the given values of the state cells, and the effects whose
\* dependencies changed, in the order of their declaration: the copies into
\* appStatusRef and routeRef, the copy of currentManeuverIndex into its ref,
\* the rebuilding of the route index, whose setCurrentManeuverIndex(0) is
\* rendered with it, and the reset of the remaining metres.  The ref and the
\* state of the active index differ only when a handler set the state alone,
\* so the copy runs whenever they differ.
CommitSet(status, rt, stopList, simulating, idx, remaining) ==
  LET routeChanged == rt # routeRef
      synced == idx
      effect == RouteEffect(rt, synced)
  IN
    /\ appStatus' = status /\ appStatusRef' = status
    /\ route' = rt /\ routeRef' = rt
    /\ stops' = stopList
    /\ isSimulating' = simulating /\ renderedIsSimulating' = simulating
    /\ IF routeChanged
       THEN /\ polylineDistancesRef' = effect.distances
            /\ maneuverMetaRef' = effect.meta
            /\ currentManeuverIndexRef' = effect.index
            /\ currentManeuverIndex' = effect.index
       ELSE /\ currentManeuverIndexRef' = synced
            /\ currentManeuverIndex' = idx
            /\ UNCHANGED <<polylineDistancesRef, maneuverMetaRef>>
    /\ currentManeuverRemainingRef' =
         IF displayTraced THEN RenderedRemaining(status, rt, remaining)
         ELSE currentManeuverRemainingRef

\* the same, after a handler that leaves the remaining metres alone
Commit(status, rt, stopList, simulating, idx) ==
  CommitSet(status, rt, stopList, simulating, idx, currentManeuverRemainingRef)

\* the render React schedules after a callback outside the user's events (a
\* fix, a settled request, a frame) set state
Render ==
  /\ \/ appStatus # appStatusRef
     \/ route # routeRef
     \/ isSimulating # renderedIsSimulating
  /\ Commit(appStatus, route, stops, isSimulating, currentManeuverIndex)
  /\ ev' = IF route # routeRef THEN Event("routeEffect") ELSE NoEvent
  /\ UNCHANGED <<displayVars, now, errorMessage, currentSegmentIndexRef, detectorVars,
                 pendingPlans, simVars, fixHistory>>

\* ------------------------------------------------------------- fix pipeline
\* the stops that lie behind the rider: those on the line of the route whose
\* place along it the snapped progress has gone beyond
PassedStops(stopList, line, distances, progressDist) ==
  {c \in {stopList[i].coord : i \in 1..Len(stopList)} :
     /\ c # NoCoord
     /\ getNearestPointOnLine(c, line).point = c
     /\ distances[findClosestPolylineIndex(c, line)] < progressDist}

\* the pending heading after a fix: a live fix under 3 km/h keeps the one
\* there is
PendingHeading(pending, finalHeading, newSpeed, simulating) ==
  IF (newSpeed >= 3 \/ simulating \/ pending = NoHeading) /\ finalHeading # NoHeading
  THEN finalHeading
  ELSE pending

\* mutation of SnappedPos: the fix is never moved onto the route
SnappedPosRaw(navigating, point, newPos) == newPos

\* mutation of RemainingPublished: every tracked fix publishes
RemainingPublishedAlways(prevRemaining, remainingMeters, indexChanged) == TRUE

\* the remaining metres of a tracked fix are published
RemainingPublished(prevRemaining, remainingMeters, indexChanged) ==
  \/ prevRemaining = NoRemaining
  \/ Abs(prevRemaining - remainingMeters) >= 100
  \/ indexChanged

\* finalPos: the fix is moved onto the route while a route is ridden
SnappedPos(navigating, point, newPos) == IF navigating THEN point ELSE newPos

\* mutation of CommitDue: the gate opens after half the interval
CommitDueHalf(nowMs, lastStateUpdateTime) == nowMs - lastStateUpdateTime >= 50

\* the gate of the throttle: position and speed are committed on this fix
CommitDue(nowMs, lastStateUpdateTime) == nowMs - lastStateUpdateTime >= 100

\* setHeading(prev => ...): the committed heading, kept in hundredths of a
\* degree, moves 15% of the way to the pending heading (in degrees); the
\* result is rounded down to the hundredth
BlendHeading(prev, finalH) ==
  LET diff == finalH * 100 - prev
      wrapped == IF diff > 18000 THEN diff - 36000
                 ELSE IF diff < 0 - 18000 THEN diff + 36000
                 ELSE diff
  IN  (prev + (wrapped * 15) \div 100 + 36000) % 36000

\* updateRiderLocation, called with the closure cl the caller holds: the
\* stops and the isSimulating flag of the render that created the callback.
\* It reads and writes the refs and commits the rider state through the
\* throttle (the marker and the camera are left out).  A fix that is
\* snapped has a heading, so the tracker never falls back on the smoothed
\* one.  A fix that is not tracked leaves the detector and the tracker as
\* they are.
UpdateRiderLocation(newPos, rawHeading, newSpeed, cl) ==
  \* every value is computed once and bound, in the order of the source
  \E snap \in {getNearestPointOnLine(newPos, RouteData(routeRef).polyline)} :
  \E navigating \in {appStatusRef = NAVIGATING /\ routeRef # NoRoute} :
  \E finalPos \in {SnappedPos(navigating, snap.point, newPos)} :
  \E segIdx \in {IF navigating THEN snap.segmentIndex ELSE 0} :
  \E finalHeading \in
       {LET snappedHeading == IF rawHeading = NoHeading \/ newSpeed < 5
                              THEN snap.bearing ELSE rawHeading
            lookAheadMeters == Min(600, Max(LOOKAHEAD_BASE_METERS, newSpeed * 6))
            routeBearing == getLookaheadBearing(routeRef, polylineDistancesRef, segIdx,
                                                finalPos, lookAheadMeters)
            movedHeading == IF rawHeading = NoHeading /\ lastPosRef # NoCoord
                               /\ getDistanceSq(lastPosRef, newPos) > 0
                            THEN calculateBearing(lastPosRef, newPos)
                            ELSE rawHeading
        IN  IF ~navigating THEN movedHeading
            ELSE IF cl.isSimulating /\ routeBearing # NoHeading THEN routeBearing
            ELSE snappedHeading} :
  \E tracked \in {/\ navigating
                  /\ segIdx >= 1
                  /\ polylineDistancesRef # <<>>
                  /\ Len(polylineDistancesRef) >= segIdx
                  /\ Len(maneuverMetaRef) > 0} :
  \E progressDist \in
       {IF tracked
        THEN polylineDistancesRef[segIdx]
               + getDistanceMeters(RouteData(routeRef).polyline[segIdx], finalPos)
        ELSE 0} :
  \E far \in {getDistanceMeters(newPos, finalPos) > getOffRouteThreshold(newSpeed)} :
  \E counter \in {Strikes(offRouteCounterRef, far)} :
  \E due \in {RerouteDue(counter, reroutingRef, now, lastRerouteTimeRef)} :
  \E routePoints \in {ReroutePoints(cl.stops, newPos)} :
  \E activeIndex \in
       {IF tracked
        THEN ActiveIndex(currentManeuverIndexRef, maneuverMetaRef, progressDist,
                         finalHeading, newSpeed)
        ELSE currentManeuverIndexRef} :
  \E remainingMeters \in
       {IF tracked
        THEN Max(0, maneuverMetaRef[activeIndex + 1].distanceAlong - progressDist)
        ELSE 0} :
  \E pendingHeading \in {PendingHeading(pendingHeadingRef, finalHeading, newSpeed,
                                         cl.isSimulating)} :
  LET issued == due /\ Len(routePoints) >= 2
      aborted == due /\ Len(routePoints) < 2
      indexChanged == activeIndex # currentManeuverIndexRef
      published == RemainingPublished(currentManeuverRemainingRef, remainingMeters,
                                      indexChanged)
  IN
    /\ currentSegmentIndexRef' = IF navigating THEN segIdx ELSE currentSegmentIndexRef
    /\ IF displayTraced
       THEN /\ pendingPosRef' = finalPos
            /\ pendingSpeedRef' = newSpeed
            /\ pendingHeadingRef' = pendingHeading
            /\ lastPosRef' = finalPos
            /\ IF CommitDue(now, lastStateUpdateTimeRef)
               THEN /\ lastStateUpdateTimeRef' = now
                    /\ currentPos' = finalPos
                    /\ speed' = newSpeed
                    /\ heading' = IF pendingHeading # NoHeading
                                  THEN BlendHeading(heading, pendingHeading)
                                  ELSE heading
                    /\ commitLog' = Append(commitLog, now)
               ELSE UNCHANGED <<lastStateUpdateTimeRef, currentPos, speed, heading, commitLog>>
            /\ currentManeuverRemainingRef' =
                 IF tracked /\ published THEN remainingMeters
                 ELSE currentManeuverRemainingRef
       ELSE UNCHANGED <<riderVars, currentManeuverRemainingRef>>
    /\ IF tracked
       THEN /\ counter <= MaxStrikes
            /\ offRouteCounterRef' = IF aborted THEN 0 ELSE counter
            /\ lastRerouteTimeRef' = IF due THEN now ELSE lastRerouteTimeRef
            /\ reroutingRef' = IF issued THEN TRUE ELSE reroutingRef
            /\ pendingReroutes' = IF issued THEN Append(pendingReroutes, routePoints)
                                  ELSE pendingReroutes
            /\ currentManeuverIndexRef' = activeIndex
            /\ currentManeuverIndex' = IF indexChanged THEN activeIndex ELSE currentManeuverIndex
            /\ ev' = [op |-> "fix", far |-> far, issued |-> issued, aborted |-> aborted,
                      run |-> IF far THEN NoRun ELSE streak,
                      was |-> IF displayTraced THEN currentManeuverIndexRef ELSE 0]
            /\ rerouteLog' = IF issued THEN Append(rerouteLog, now) ELSE rerouteLog
            /\ lastIssued' = IF issued THEN "reroute" ELSE lastIssued
            /\ farRun' = IF aborted THEN 0 ELSE IF far THEN farRun + 1 ELSE 0
            /\ streak' = IF ~far THEN NoRun
                         ELSE IF streak.len >= MaxStreak THEN streak
                         ELSE [len |-> streak.len + 1,
                               firedAt |-> IF issued /\ streak.firedAt = 0
                                           THEN streak.len + 1 ELSE streak.firedAt]
       ELSE UNCHANGED <<detectorVars, currentManeuverIndexRef, currentManeuverIndex,
                        ev, fixHistory>>

\* the fixes the location watch delivers: <<position, heading, speed>>; on
\* the line of route 1 (lat 0), 40 m north of it (off route 1 at 20 km/h, on
\* it at 70 km/h, on route 2 at both), and 100 m north of it
Fixes ==
  {<<Pt(0, 0), 90, 20>>, <<Pt(0, 0), 180, 70>>,
   <<Pt(950, 0), 90, 20>>, <<Pt(950, 0), 180, 20>>,
   <<Pt(1300, 0), NoHeading, 2>>, <<Pt(2000, 0), 0, 70>>,
   <<Pt(1300, 400), 90, 20>>, <<Pt(1300, 400), 90, 70>>,
   <<Pt(950, 1000), 90, 20>>}
Speeds == {4, 20, 70}
\* the speed of a simulation whose frames come at an even pace
CruiseSpeeds == {20}
\* the fixes of the behaviours that follow the display: a ride east, a halt,
\* a fix 40 m north of the line and 30 m past the end of route 5
DisplayFixes ==
  {<<Pt(950, 0), 90, 20>>, <<Pt(1300, 0), NoHeading, 2>>, <<Pt(1300, 400), 90, 20>>}
\* the fixes of the rides that try the index: on the line of route 7 (at a
\* corner, within a segment, at its end) and 70 m north of its last segment
IndexFixes ==
  {<<Pt(1300, 0), NoHeading, 2>>, <<Pt(1150, 0), 90, 20>>, <<Pt(2000, 400), 90, 70>>,
   <<Pt(1650, 1100), 90, 70>>, <<Pt(1650, 1100), 90, 20>>}
\* the fixes of the rides that try the tracker, on the line of routes 1 and
\* 8: 5 m before the maneuver half way, heading along the line and across
\* it, at it and 15 m past it heading back, at the start, and at the end
\* heading north
TrackFixes ==
  {<<Pt(950, 0), 90, 20>>, <<Pt(950, 0), 180, 20>>, <<Pt(1000, 0), 270, 20>>,
   <<Pt(1150, 0), 270, 20>>, <<Pt(0, 0), 90, 20>>, <<Pt(2000, 0), 0, 20>>}
\* the fixes of a rider on the line of route 9: at the start, at the
\* maneuver half way and at the destination
EndFixes == {<<Pt(0, 0), 90, 20>>, <<Pt(400, 0), 90, 20>>, <<Pt(800, 0), 90, 20>>}
\* the fix of a rider who stays where the ride starts
HomeFixes == {<<Pt(0, 0), 90, 20>>}

RemoveAt(seq, i) == SubSeq(seq, 1, i - 1) \o SubSeq(seq, i + 1, Len(seq))

\* the history of the producers: by has fed a fix
Feed(by, newPos) ==
  fed' = IF displayTraced THEN [by |-> by, pos |-> newPos] ELSE fed

\* the effect of the permission probe runs when gpsActive has changed: its
\* cleanup clears the timer, and it sets a new one unless gpsActive holds
ProbeEffect(p, was, is) == IF was = is THEN p ELSE [p EXCEPT !.timer = ~is]

\* a fix of the location watch (the watch is subscribed while the rendered
\* isSimulating is false); outside navigation a fix writes the display cells
\* only, and is left out where they are not followed
GpsFix(fixes) ==
  /\ ~renderedIsSimulating
  /\ displayTraced \/ (appStatusRef = NAVIGATING /\ routeRef # NoRoute)
  /\ \E fix \in fixes :
       /\ UpdateRiderLocation(fix[1], fix[2], fix[3],
                              [stops |-> stops, isSimulating |-> renderedIsSimulating])
       /\ Feed("watch", fix[1])
  /\ gpsActive' = IF displayTraced THEN TRUE ELSE gpsActive
  /\ gpsPermissionDenied' = IF displayTraced THEN FALSE ELSE gpsPermissionDenied
  /\ probe' = IF displayTraced THEN ProbeEffect(probe, gpsActive, TRUE) ELSE probe
  /\ UNCHANGED <<displayTraced, angleCall, trackCall, routeCall, pendingGps, now, appStatus, route, stops, isSimulating, errorMessage, committedVars,
                 pendingPlans, simVars>>

\* the location watch reports PERMISSION_DENIED (any other error changes
\* nothing)
WatchDenied ==
  /\ displayTraced
  /\ ~renderedIsSimulating
  /\ ~gpsPermissionDenied \/ gpsActive
  /\ gpsActive' = FALSE
  /\ gpsPermissionDenied' = TRUE
  /\ probe' = ProbeEffect(probe, gpsActive, FALSE)
  /\ ev' = NoEvent
  /\ UNCHANGED <<displayTraced, angleCall, trackCall, routeCall, pendingGps, riderVars, fed, currentManeuverRemainingRef,
                 now, renderVars, errorMessage, currentSegmentIndexRef, detectorVars,
                 pendingPlans, simVars, fixHistory>>

\* "Enable Location" on the permission banner: requestGPSPermission up to its
\* await; the request holds the updateRiderLocation of this render
requestGPSPermission ==
  /\ displayTraced
  /\ gpsPermissionDenied /\ ~gpsActive
  /\ Len(pendingGps) < MaxGps
  /\ pendingGps' = Append(pendingGps,
                          [stops |-> stops, isSimulating |-> renderedIsSimulating])
  /\ ev' = NoEvent
  /\ UNCHANGED <<displayTraced, angleCall, trackCall, routeCall, gpsActive, gpsPermissionDenied, probe, riderVars, fed,
                 currentManeuverRemainingRef, now, renderVars, errorMessage,
                 currentSegmentIndexRef, detectorVars, pendingPlans, simVars, fixHistory>>

\* getCurrentPosition resolved: requestGPSPermission after its await
GpsPosition(fixes) ==
  \E i \in 1..Len(pendingGps), fix \in fixes :
    /\ pendingGps' = RemoveAt(pendingGps, i)
    /\ gpsActive' = TRUE
    /\ gpsPermissionDenied' = FALSE
    /\ probe' = ProbeEffect(probe, gpsActive, TRUE)
    /\ UpdateRiderLocation(fix[1], fix[2], fix[3], pendingGps[i])
    /\ Feed("permission", fix[1])
    /\ UNCHANGED <<displayTraced, angleCall, trackCall, routeCall, now, appStatus, route, stops, isSimulating, errorMessage,
                   committedVars, pendingPlans, simVars>>

\* the codes of a GeolocationPositionError, and the events they are told by
ErrorCodes == {1, 2, 3}
ErrorName(code) ==
  IF code = 1 THEN "denied" ELSE IF code = 2 THEN "unavailable" ELSE "timeout"

\* mutation of PermissionDenied: every error counts as a denial
PermissionDeniedAny(code) == TRUE

\* err.code === 1
PermissionDenied(code) == code = 1

\* the location watch reports an error
WatchError ==
  \E code \in ErrorCodes :
    /\ displayTraced
    /\ ~renderedIsSimulating
    /\ IF PermissionDenied(code)
       THEN /\ gpsActive' = FALSE
            /\ gpsPermissionDenied' = TRUE
            /\ probe' = ProbeEffect(probe, gpsActive, FALSE)
       ELSE UNCHANGED <<gpsActive, gpsPermissionDenied, probe>>
    /\ ev' = Event(ErrorName(code))
    /\ UNCHANGED <<displayTraced, angleCall, trackCall, routeCall, pendingGps, riderVars, fed,
                   currentManeuverRemainingRef, now, renderVars, errorMessage,
                   currentSegmentIndexRef, detectorVars, pendingPlans, simVars, fixHistory>>

\* the timer of the permission probe fires: getCurrentPosition is called
ProbeTimer ==
  /\ displayTraced
  /\ probe.timer
  /\ probe.requests < MaxProbes
  /\ probe' = [timer |-> FALSE, requests |-> probe.requests + 1]
  /\ ev' = NoEvent
  /\ UNCHANGED <<displayTraced, angleCall, trackCall, routeCall, gpsActive, gpsPermissionDenied, pendingGps,
                 riderVars, fed, currentManeuverRemainingRef, now, renderVars, errorMessage,
                 currentSegmentIndexRef, detectorVars, pendingPlans, simVars, fixHistory>>

\* the request of the probe resolved
ProbeSuccess ==
  /\ probe.requests > 0
  /\ gpsActive' = TRUE
  /\ gpsPermissionDenied' = FALSE
  /\ probe' = ProbeEffect([probe EXCEPT !.requests = @ - 1], gpsActive, TRUE)
  /\ ev' = Event("position")
  /\ UNCHANGED <<displayTraced, angleCall, trackCall, routeCall, pendingGps, riderVars, fed,
                 currentManeuverRemainingRef, now, renderVars, errorMessage,
                 currentSegmentIndexRef, detectorVars, pendingPlans, simVars, fixHistory>>

\* the request of the probe failed
ProbeError ==
  \E code \in ErrorCodes :
    /\ probe.requests > 0
    /\ gpsPermissionDenied' = IF PermissionDenied(code) THEN TRUE ELSE gpsPermissionDenied
    /\ probe' = [probe EXCEPT !.requests = @ - 1]
    /\ ev' = Event(ErrorName(code))
    /\ UNCHANGED <<displayTraced, angleCall, trackCall, routeCall, gpsActive, pendingGps, riderVars, fed,
                   currentManeuverRemainingRef, now, renderVars, errorMessage,
                   currentSegmentIndexRef, detectorVars, pendingPlans, simVars, fixHistory>>

\* getCurrentPosition rejected: the catch of requestGPSPermission
GpsRejected ==
  \E i \in 1..Len(pendingGps), code \in ErrorCodes :
    /\ pendingGps' = RemoveAt(pendingGps, i)
    /\ gpsPermissionDenied' = IF PermissionDenied(code) THEN TRUE ELSE gpsPermissionDenied
    /\ ev' = Event(ErrorName(code))
    /\ UNCHANGED <<displayTraced, angleCall, trackCall, routeCall, gpsActive, probe, riderVars, fed,
                   currentManeuverRemainingRef, now, renderVars, errorMessage,
                   currentSegmentIndexRef, detectorVars, pendingPlans, simVars, fixHistory>>

\* ------------------------------------------------------- reroute completion
\* the routes of rs a request can resolve to: the response is a new object,
\* which the catalogue tells from the ones the program holds by its number
Responses(rs) == rs \ {route, routeRef}

\* mutation of RerouteCatchStatus: a failed reroute shows the error status
RerouteCatchStatusError == ERROR

\* what the catch handler of the reroute request sets the status to
RerouteCatchStatus == NAVIGATING
\* mutation of RerouteFinallyFlag: the flag is not cleared
RerouteFinallyFlagKept == TRUE

\* what the finally handler leaves in the in-flight flag
RerouteFinallyFlag == FALSE

\* calculateRoute resolved: then + finally
RerouteSuccess(rs) ==
  \E i \in 1..Len(pendingReroutes), res \in Responses(rs) :
    /\ pendingReroutes' = RemoveAt(pendingReroutes, i)
    /\ route' = res
    /\ appStatus' = NAVIGATING
    /\ currentSegmentIndexRef' = 1
    /\ reroutingRef' = RerouteFinallyFlag
    /\ offRouteCounterRef' = 0
    /\ farRun' = 0
    /\ ev' = Event("success")
    /\ UNCHANGED <<displayVars, currentManeuverRemainingRef, now, stops, isSimulating, currentManeuverIndex, errorMessage, committedVars,
                   currentManeuverIndexRef, lastRerouteTimeRef, pendingPlans, simVars,
                   rerouteLog, streak, lastIssued>>

\* calculateRoute rejected: catch + finally
RerouteFailure ==
  \E i \in 1..Len(pendingReroutes) :
    /\ pendingReroutes' = RemoveAt(pendingReroutes, i)
    /\ errorMessage' = "Route recalculation failed."
    /\ appStatus' = RerouteCatchStatus
    /\ reroutingRef' = RerouteFinallyFlag
    /\ offRouteCounterRef' = 0
    /\ farRun' = 0
    /\ ev' = Event("failure")
    /\ UNCHANGED <<displayVars, currentManeuverRemainingRef, now, route, stops, isSimulating, currentManeuverIndex, committedVars,
                   currentManeuverIndexRef, currentSegmentIndexRef, lastRerouteTimeRef,
                   pendingPlans, simVars, rerouteLog, streak, lastIssued>>

\* --------------------------------------------------------------- simulator
\* total length of the polyline of a route of the catalogue
PolylineLength(r) ==
  LET d == PolylineDistances(r) IN IF d = <<>> THEN 0 ELSE d[Len(d)]

\* the identifier requestAnimationFrame hands out: one no pending callback has
requestAnimationFrame(pending) ==
  CHOOSE id \in 1..(Cardinality(pending) + 1) :
    id \notin pending /\ \A other \in 1..(id - 1) : other \in pending

\* mutation of cancelAnimationFrame: the callback stays pending
cancelAnimationFrameLost(pending, id) == pending

\* the callbacks still pending after cancelAnimationFrame(id)
cancelAnimationFrame(pending, id) == pending \ {id}

\* the callbacks stopSimulation leaves pending
stopSimulation(pending) ==
  IF simIntervalRef # 0 THEN cancelAnimationFrame(pending, simIntervalRef) ELSE pending

\* the closure of a frame loop lives as long as one of its callbacks is pending
LiveClosure(pending, cl) == IF pending = {} THEN NoClosure ELSE cl

\* the segment (from 1) the simulated rider is on after travelling dist
RECURSIVE SimSegment(_, _, _)
SimSegment(distances, dist, i) ==
  IF i >= Len(distances) - 1 THEN i
  ELSE IF distances[i + 1] >= dist THEN i
  ELSE SimSegment(distances, dist, i + 1)

\* position and heading of the simulated rider after travelling dist; the
\* heading looks 5% of the segment ahead, which is the direction of the
\* segment, or no movement at all at the very end of the segment
SimLocation(r, dist) ==
  LET poly == RouteData(r).polyline
      distances == PolylineDistances(r)
      found == \E i \in 1..(Len(poly) - 1) : distances[i + 1] >= dist
      segIdx == IF found THEN SimSegment(distances, dist, 1) ELSE 1
      accumulated == IF found THEN distances[segIdx] ELSE distances[Len(distances)]
      segLen == getDistanceMeters(poly[segIdx], poly[segIdx + 1])
      num == dist - accumulated
  IN  [loc |-> interpolate(poly[segIdx], poly[segIdx + 1], num, segLen),
       bearing |-> IF num < segLen THEN calculateBearing(poly[segIdx], poly[segIdx + 1]) ELSE 0]

\* "Realistic Simulation", offered while the rendered status is CONFIRM
startSimulation ==
  /\ appStatusRef = CONFIRM /\ routeRef # NoRoute
  /\ Len(RouteData(routeRef).polyline) >= 2
  /\ PolylineLength(routeRef) <= MaxSimDist
  /\ CommitSet(NAVIGATING, route, stops, TRUE, 0,
               IF maneuverMetaRef # <<>> THEN maneuverMetaRef[1].distanceAlong
               ELSE IF RouteData(routeRef).maneuvers # <<>>
                    THEN RouteData(routeRef).maneuvers[1].distance
                    ELSE NoRemaining)
  /\ distanceRef' = 0
  /\ frameCount' = 0
  /\ LET pending == stopSimulation(rafPending)
         id == requestAnimationFrame(pending)
     IN  /\ rafPending' = pending \cup {id}
         /\ simIntervalRef' = id
  /\ simClosure' = [stops |-> stops, isSimulating |-> renderedIsSimulating, route |-> routeRef]
  /\ ev' = NoEvent
  /\ UNCHANGED <<displayVars, now, errorMessage, currentSegmentIndexRef, detectorVars,
                 pendingPlans, fixHistory>>

\* the simulation ends half way
ArrivedHalfWay(travelled, totalDist) == 2 * travelled >= totalDist

\* animate: the distance travelled has reached the length of the route
Arrived(travelled, totalDist) == travelled >= totalDist

\* the arrival leaves the status at its value
ArrivalStatusNavigating == NAVIGATING

\* the status animate sets once the distance travelled has reached the
\* length of the route
ArrivalStatus == ARRIVED

\* a frame callback runs (animate)
SimFrame(speeds) ==
  \E id \in rafPending :
    LET count == (frameCount + 1) % 2
        travelled == distanceRef + SPEED_FACTOR
        totalDist == PolylineLength(simClosure.route)
        at == SimLocation(simClosure.route, travelled)
        rest == rafPending \ {id}
        next == requestAnimationFrame(rest)
    IN
      /\ IF count # 0
         THEN \* every other frame only re-arms the callback
              /\ frameCount' = count
              /\ rafPending' = rest \cup {next}
              /\ simIntervalRef' = next
              /\ ev' = NoEvent
              /\ UNCHANGED <<distanceRef, simClosure, isSimulating, appStatus,
                             currentManeuverIndex, currentManeuverIndexRef,
                             currentSegmentIndexRef, detectorVars, fixHistory,
                             riderVars, fed, currentManeuverRemainingRef>>
         ELSE /\ distanceRef' = travelled
              /\ IF Arrived(travelled, totalDist)
                 THEN /\ isSimulating' = FALSE
                      /\ rafPending' = stopSimulation(rest)
                      /\ appStatus' = ArrivalStatus
                      /\ frameCount' = IF rafPending' = {} THEN 0 ELSE count
                      /\ simClosure' = LiveClosure(rafPending', simClosure)
                      /\ ev' = NoEvent
                      /\ UNCHANGED <<simIntervalRef, currentManeuverIndex,
                                     currentManeuverIndexRef, currentSegmentIndexRef,
                                     detectorVars, fixHistory,
                                     riderVars, fed, currentManeuverRemainingRef>>
                 ELSE /\ \E speedValue \in speeds, currentLoc \in {at.loc},
                              bearing \in {at.bearing} :
                           /\ UpdateRiderLocation(currentLoc, bearing, speedValue, simClosure)
                           /\ Feed("sim", currentLoc)
                      /\ frameCount' = count
                      /\ rafPending' = rest \cup {next}
                      /\ simIntervalRef' = next
                      /\ UNCHANGED <<isSimulating, appStatus, simClosure>>
      /\ UNCHANGED <<displayTraced, angleCall, trackCall, routeCall, gpsVars, now, route, stops, errorMessage, committedVars,
                     pendingPlans>>

\* ------------------------------------------------------------ user actions
\* A handler of a user event sets state and React renders before anything
\* else runs: each of these actions ends with the render.

\* the stop button of the navigation panel: stopSimulation(); setAppStatus(IDLE)
StopNavigation ==
  /\ appStatusRef = NAVIGATING
  /\ Commit(IDLE, route, stops, FALSE, currentManeuverIndex)
  /\ rafPending' = stopSimulation(rafPending)
  /\ frameCount' = IF rafPending' = {} THEN 0 ELSE frameCount
  /\ simClosure' = LiveClosure(rafPending', simClosure)
  /\ ev' = Event("stop")
  /\ UNCHANGED <<displayVars, now, errorMessage, currentSegmentIndexRef, detectorVars,
                 pendingPlans, simIntervalRef, distanceRef, fixHistory>>

\* "Start Real Ride" (status CONFIRM with a route) and "Start Free Ride"
\* (status IDLE without a destination)
StartRide ==
  /\ \/ appStatusRef = CONFIRM /\ routeRef # NoRoute
     \/ appStatusRef = IDLE /\ ~hasDestination(stops)
  /\ Commit(NAVIGATING, route, stops, isSimulating, currentManeuverIndex)
  /\ ev' = NoEvent
  /\ UNCHANGED <<displayVars, now, errorMessage, currentSegmentIndexRef, detectorVars,
                 pendingPlans, simVars, fixHistory>>

\* "Adjust": setRoute(null); setAppStatus(IDLE)
Adjust ==
  /\ appStatusRef = CONFIRM /\ routeRef # NoRoute
  /\ Commit(IDLE, NoRoute, stops, isSimulating, currentManeuverIndex)
  /\ ev' = NoEvent
  /\ UNCHANGED <<displayVars, now, errorMessage, currentSegmentIndexRef, detectorVars,
                 pendingPlans, simVars, fixHistory>>

\* mutation of PanelShown: the panel is hidden after the arrival as well
PanelShownNoArrival == appStatusRef \in {IDLE, CONFIRM}

\* the planning panel is shown unless the rendered status is NAVIGATING; the
\* PREVIEW overlay covers it
PanelShown == appStatusRef \in {IDLE, CONFIRM, ARRIVED}

\* the coordinate the geocoder offers for a stop
SuggestionFor(stop) == IF stop.id = "end" THEN Pt(2000, 0) ELSE Pt(1000, 0)

\* an entry of the stop list a closure holds is the object of the current
\* list as long as no edit has replaced it
ClearShared(list, index, entry) ==
  IF index <= Len(list) /\ list[index] = entry
  THEN [list EXCEPT ![index].coord = NoCoord]
  ELSE list

\* the user empties the text of a stop: the coordinate of the entry is
\* cleared in place
onInputChange ==
  \E index \in 1..Len(stops) :
    /\ PanelShown
    /\ stops[index].coord # NoCoord
    /\ Commit(appStatus, route, [stops EXCEPT ![index].coord = NoCoord], isSimulating,
              currentManeuverIndex)
    /\ simClosure' = [simClosure EXCEPT
                        !.stops = ClearShared(simClosure.stops, index, stops[index])]
    /\ ev' = NoEvent
    /\ UNCHANGED <<displayVars, now, errorMessage, currentSegmentIndexRef, detectorVars,
                   pendingPlans, simIntervalRef, rafPending, frameCount, distanceRef,
                   fixHistory>>

\* the user picks a suggestion for a stop (the start stays "My Location")
selectSuggestion ==
  \E index \in 2..Len(stops) :
    /\ PanelShown
    /\ stops[index].coord = NoCoord
    /\ Commit(appStatus, route, [stops EXCEPT ![index].coord = SuggestionFor(stops[index])],
              isSimulating, currentManeuverIndex)
    /\ ev' = NoEvent
    /\ UNCHANGED <<displayVars, now, errorMessage, currentSegmentIndexRef, detectorVars,
                   pendingPlans, simVars, fixHistory>>

\* "Add waypoint": a new stop before the destination
addWaypoint ==
  /\ PanelShown
  /\ Len(stops) < MaxStops
  /\ Commit(appStatus, route,
            SubSeq(stops, 1, Len(stops) - 1) \o <<[id |-> "waypoint", coord |-> NoCoord]>>
              \o <<stops[Len(stops)]>>,
            isSimulating, currentManeuverIndex)
  /\ ev' = NoEvent
  /\ UNCHANGED <<displayVars, now, errorMessage, currentSegmentIndexRef, detectorVars,
                 pendingPlans, simVars, fixHistory>>

\* the indices the handlers of the stop list are called with (from 0, as in
\* the source): those of the list, and some before and after it
Indices == (0 - (MaxStops + 1))..(MaxStops + 1)

\* Array.prototype.splice: where a start index falls in an array of len
\* entries (a negative one counts from the end)
SpliceStart(len, start) ==
  IF start < 0 THEN (IF len + start < 0 THEN 0 ELSE len + start)
  ELSE IF start > len THEN len ELSE start

\* what [x] = list.splice(start, 1) binds x to when nothing is removed
Undefined == [id |-> "undefined", coord |-> NoCoord]

\* the early return of removeWaypoint
RemoveRejected(stopList, index) ==
  index = 0 \/ index = Len(stopList) - 1 \/ Len(stopList) <= 2

\* the panel's removeWaypoint(index): stops.filter((_, i) => i !== index)
removeWaypoint(index) ==
  /\ PanelShown
  /\ IF RemoveRejected(stops, index)
     THEN Commit(appStatus, route, stops, isSimulating, currentManeuverIndex)
     ELSE Commit(appStatus, route,
                 IF index + 1 \in 1..Len(stops) THEN RemoveAt(stops, index + 1) ELSE stops,
                 isSimulating, currentManeuverIndex)
  /\ ev' = NoEvent
  /\ UNCHANGED <<displayVars, now, errorMessage, currentSegmentIndexRef, detectorVars,
                 pendingPlans, simVars, fixHistory>>

\* the early returns of moveWaypoint
MoveRejected(stopList, fromIndex, toIndex) ==
  \/ fromIndex = 0 \/ fromIndex = Len(stopList) - 1
  \/ toIndex = 0 \/ toIndex = Len(stopList) - 1
  \/ toIndex < 0 \/ toIndex >= Len(stopList)

\* the list moveWaypoint builds: splice(fromIndex, 1), then
\* splice(toIndex, 0, movedStop)
Moved(stopList, fromIndex, toIndex) ==
  LET at == SpliceStart(Len(stopList), fromIndex)
      taken == at < Len(stopList)
      movedStop == IF taken THEN stopList[at + 1] ELSE Undefined
      rest == IF taken THEN RemoveAt(stopList, at + 1) ELSE stopList
      to == SpliceStart(Len(rest), toIndex)
  IN SubSeq(rest, 1, to) \o <<movedStop>> \o SubSeq(rest, to + 1, Len(rest))

\* the panel's moveWaypoint(fromIndex, toIndex)
moveWaypoint(fromIndex, toIndex) ==
  /\ PanelShown
  /\ IF MoveRejected(stops, fromIndex, toIndex)
     THEN Commit(appStatus, route, stops, isSimulating, currentManeuverIndex)
     ELSE /\ Len(Moved(stops, fromIndex, toIndex)) <= MaxStops + 1
          /\ Commit(appStatus, route, Moved(stops, fromIndex, toIndex), isSimulating,
                    currentManeuverIndex)
  /\ ev' = NoEvent
  /\ UNCHANGED <<displayVars, now, errorMessage, currentSegmentIndexRef, detectorVars,
                 pendingPlans, simVars, fixHistory>>

\* "Delete Waypoint" in the popup of a waypoint marker on the map
\* (window.removeWaypoint): the markers with a popup are those of the
\* intermediate stops that have a coordinate.  With a route the handler
\* sends a recalculation request, which settles as a plan request does.
popupRemoveWaypoint ==
  \E index \in 2..(Len(stops) - 1) :
    LET newStops == RemoveAt(stops, index)
    IN
      /\ stops[index].coord # NoCoord
      /\ IF routeRef = NoRoute
         THEN /\ Commit(appStatus, route, newStops, isSimulating, currentManeuverIndex)
              /\ UNCHANGED <<pendingPlans, errorMessage, lastIssued>>
         ELSE IF Len(ValidStops(newStops)) >= 1
         THEN /\ Len(pendingPlans) < MaxPlans
              /\ Commit(PREVIEW, route, newStops, isSimulating, currentManeuverIndex)
              /\ pendingPlans' = Append(pendingPlans, Len(PlanPoints(newStops)))
              /\ lastIssued' = "plan"
              /\ UNCHANGED errorMessage
         ELSE /\ Commit(IDLE, NoRoute, newStops, isSimulating, currentManeuverIndex)
              /\ UNCHANGED <<pendingPlans, errorMessage, lastIssued>>
      /\ ev' = [Event("delete") EXCEPT !.from = appStatusRef]
      /\ UNCHANGED <<displayVars, now, currentSegmentIndexRef, detectorVars, simVars,
                     rerouteLog, farRun, streak>>

\* ---------------------------------------------------------------- planning
\* handlePlanRide up to its await ("Preview Ride" and the mode buttons)
handlePlanRide ==
  /\ appStatusRef \in {IDLE, CONFIRM}
  /\ hasDestination(stops)
  /\ Len(pendingPlans) < MaxPlans
  /\ IF Len(ValidStops(stops)) = 0
     THEN /\ errorMessage' = "Please select a destination."
          /\ Commit(appStatus, route, stops, isSimulating, currentManeuverIndex)
          /\ UNCHANGED <<pendingPlans, lastIssued>>
     ELSE /\ errorMessage' = NoError
          /\ Commit(PREVIEW, route, stops, isSimulating, currentManeuverIndex)
          /\ pendingPlans' = Append(pendingPlans, Len(PlanPoints(stops)))
          /\ lastIssued' = "plan"
  /\ ev' = NoEvent
  /\ UNCHANGED <<displayVars, now, currentSegmentIndexRef, detectorVars, simVars,
                 rerouteLog, farRun, streak>>

\* the plan request resolved (calculateRoute rejects fewer than 2 points)
PlanSuccess(rs) ==
  \E i \in 1..Len(pendingPlans), res \in Responses(rs) :
    /\ pendingPlans[i] >= 2
    /\ pendingPlans' = RemoveAt(pendingPlans, i)
    /\ route' = res
    /\ appStatus' = CONFIRM
    /\ currentSegmentIndexRef' = 1
    /\ ev' = NoEvent
    /\ UNCHANGED <<displayVars, currentManeuverRemainingRef, now, stops, isSimulating, currentManeuverIndex, errorMessage, committedVars,
                   currentManeuverIndexRef, detectorVars, simVars, fixHistory>>

\* mutation of PlanCatchStatus: the failed plan is offered for confirmation
PlanCatchStatusConfirm == CONFIRM

\* what the catch handler of the plan request sets the status to
PlanCatchStatus == IDLE

\* the plan request failed
PlanFailure ==
  \E i \in 1..Len(pendingPlans) :
    /\ pendingPlans' = RemoveAt(pendingPlans, i)
    /\ errorMessage' = "Route calculation failed."
    /\ appStatus' = PlanCatchStatus
    /\ ev' = NoEvent
    /\ UNCHANGED <<displayVars, currentManeuverRemainingRef, now, route, stops, isSimulating, currentManeuverIndex, committedVars,
                   currentManeuverIndexRef, currentSegmentIndexRef, detectorVars,
                   simVars, fixHistory>>

\* ----------------------------------------------------------- specifications
\* A ride from the start to the destination, with the location watch as the
\* producer of fixes.
Next ==
  \/ Tick
  \/ GpsFix(Fixes)
  \/ Render
  \/ RerouteSuccess(RideRoutes)
  \/ RerouteFailure
  \/ StopNavigation
  \/ StartRide
  \/ onInputChange
  \/ selectSuggestion
  \/ handlePlanRide
  \/ PlanSuccess(RideRoutes)

Spec == Init /\ [][Next]_vars

\* A ride through a waypoint.
TourNext ==
  \/ GpsFix(Fixes)
  \/ Render
  \/ RerouteSuccess(RideRoutes)
  \/ StartRide
  \/ selectSuggestion
  \/ addWaypoint
  \/ handlePlanRide
  \/ PlanSuccess(RideRoutes)

TourSpec == Init /\ [][TourNext]_vars

\* Planning, and a ride with the simulator as the producer of fixes.
SimNext ==
  \/ Tick
  \/ Render
  \/ startSimulation
  \/ SimFrame(Speeds)
  \/ StopNavigation
  \/ Adjust
  \/ onInputChange
  \/ selectSuggestion
  \/ addWaypoint
  \/ handlePlanRide
  \/ PlanSuccess(SimRoutes)
  \/ PlanFailure

SimSpec == Init /\ [][SimNext]_vars

\* The display of a live ride: the fixes of the watch within the throttle
\* interval, on a free ride and on the routes without an index.
DisplayNext ==
  \/ ShortTick
  \/ GpsFix(DisplayFixes)
  \/ Render
  \/ StartRide
  \/ selectSuggestion
  \/ handlePlanRide
  \/ PlanSuccess(BrokenRoutes)

DisplaySpec == DisplayInit /\ [][DisplayNext]_vars

\* The same behaviours under a clock that keeps moving.  Nothing else is
\* scheduled after a fix has been handled: the handler sets no timer.
ThrottleSpec == DisplayInit /\ [][DisplayNext]_vars /\ WF_vars(ShortTick)

\* The producers of fixes: the watch, the permission request and the
\* simulator.
ProducerNext ==
  \/ GpsFix(HomeFixes)
  \/ WatchDenied
  \/ requestGPSPermission
  \/ GpsPosition(HomeFixes)
  \/ Render
  \/ startSimulation
  \/ SimFrame(Speeds)
  \/ StopNavigation
  \/ selectSuggestion
  \/ handlePlanRide
  \/ PlanSuccess(SimRoutes)

ProducerSpec == DisplayInit /\ [][ProducerNext]_vars

\* The route index: rides on the routes it is checked on.
IndexNext ==
  \/ GpsFix(IndexFixes)
  \/ Render
  \/ StartRide
  \/ Adjust
  \/ selectSuggestion
  \/ handlePlanRide
  \/ PlanSuccess(IndexRoutes)

IndexSpec == DisplayInit /\ [][IndexNext]_vars

\* A simulated ride at a constant speed, from the start of the route to the
\* arrival.
CruiseNext ==
  \/ Render
  \/ startSimulation
  \/ SimFrame(CruiseSpeeds)
  \/ selectSuggestion
  \/ handlePlanRide
  \/ PlanSuccess(CruiseRoutes)

CruiseSpec == DisplayInit /\ [][CruiseNext]_vars

\* The routes a simulation is run to its arrival on.
ArrivalRoutes == SimRoutes \cup CruiseRoutes

\* A simulation run to its arrival, with the stop button and the location
\* watch beside it.
ArrivalNext ==
  \/ GpsFix(HomeFixes)
  \/ Render
  \/ startSimulation
  \/ SimFrame(CruiseSpeeds)
  \/ StopNavigation
  \/ selectSuggestion
  \/ handlePlanRide
  \/ PlanSuccess(ArrivalRoutes)
  \/ PlanFailure

\* The browser runs a frame callback that stays requested: each
\* requestAnimationFrame of animate is followed by its frame.
ArrivalSpec == DisplayInit /\ [][ArrivalNext]_vars /\ WF_vars(SimFrame(CruiseSpeeds))

\* The two modes of a ride on the same routes: the live ride with the
\* location watch, and the simulation.
ModeNext ==
  \/ GpsFix(EndFixes)
  \/ Render
  \/ StartRide
  \/ startSimulation
  \/ SimFrame(CruiseSpeeds)
  \/ selectSuggestion
  \/ handlePlanRide
  \/ PlanSuccess(ArrivalRoutes)

ModeSpec == DisplayInit /\ [][ModeNext]_vars

\* The angles the angle functions are called with: around the turn, on
\* both sides of north and of the half turn.
AngleSamples == {0, 1, 10, 45, 90, 170, 180, 181, 190, 270, 350, 359}
\* the factors of smoothAngle: that of the marker, that of the camera, and 1
Factors == {12, 10, 100}

\* getBearingDelta is called with the two angles
CallGetBearingDelta ==
  /\ angleCall.current # NoHeading
  /\ angleCall.delta = NoHeading
  /\ angleCall' = [angleCall EXCEPT
                     !.delta = getBearingDelta(angleCall.current, angleCall.target)]
  /\ UNCHANGED <<displayTraced, trackCall, routeCall, gpsVars, riderVars, fed, currentManeuverRemainingRef,
                 renderVars, now, errorMessage, currentSegmentIndexRef, detectorVars,
                 pendingPlans, simVars, fixHistory, ev>>

\* smoothAngle is called with the two angles and the factor
CallSmoothAngle ==
  /\ angleCall.current # NoHeading
  /\ angleCall.smoothed = NoHeading
  /\ angleCall' = [angleCall EXCEPT
                     !.smoothed = smoothAngle(angleCall.current, angleCall.target,
                                              angleCall.factor)]
  /\ UNCHANGED <<displayTraced, trackCall, routeCall, gpsVars, riderVars, fed, currentManeuverRemainingRef,
                 renderVars, now, errorMessage, currentSegmentIndexRef, detectorVars,
                 pendingPlans, simVars, fixHistory, ev>>

\* The angle functions, called with angles and factors of the samples.
AngleInit ==
  /\ Construction
  /\ displayTraced = TRUE
  /\ angleCall \in [current : AngleSamples, target : AngleSamples, factor : Factors,
                     smoothed : {NoHeading}, delta : {NoHeading}]
  /\ trackCall = NoTrackCall
  /\ routeCall = NoRouteCall

AngleNext == CallGetBearingDelta \/ CallSmoothAngle

AngleSpec == AngleInit /\ [][AngleNext]_vars

\* simplifyTrack, called with tracks of up to MaxTrack points, told apart by
\* their place in the file, and target counts from 2 to MaxTarget.
TrackInputs ==
  [points : {[i \in 1..n |-> i] : n \in 0..MaxTrack}, targetCount : 2..MaxTarget,
   done : {FALSE}, simplified : {<<>>}]

SimplifyInit ==
  /\ Construction
  /\ displayTraced = FALSE
  /\ angleCall = NoCall
  /\ trackCall \in TrackInputs
  /\ routeCall = NoRouteCall

CallSimplifyTrack ==
  /\ ~trackCall.done
  /\ trackCall' = [trackCall EXCEPT
                     !.done = TRUE,
                     !.simplified = simplifyTrack(trackCall.points, trackCall.targetCount)]
  /\ UNCHANGED <<displayTraced, angleCall, routeCall, gpsVars, riderVars, fed,
                 currentManeuverRemainingRef, now, renderVars, errorMessage,
                 currentSegmentIndexRef, detectorVars, pendingPlans, simVars, fixHistory, ev>>

SimplifyNext == CallSimplifyTrack

SimplifySpec == SimplifyInit /\ [][SimplifyNext]_vars

\* calculateRoute, called with up to MaxStops points in every mode.
RouteInputs ==
  [stops : 0..MaxStops, mode : RoutingMode, optimizeOrder : BOOLEAN, at : {"called"},
   trips : {0}, fetches : {<<>>}, answers : {<<>>}, usedMode : RoutingMode,
   outcome : {"none"}]

RouteInit ==
  /\ Construction
  /\ displayTraced = FALSE
  /\ angleCall = NoCall
  /\ trackCall = NoTrackCall
  /\ routeCall \in {c \in RouteInputs : c.usedMode = c.mode}

\* calculateRoute up to its first await of fetchRoute: the check of the
\* points, the order optimisation (a trip request, whose answer only orders
\* the points) and the first route request
CallCalculateRoute ==
  /\ routeCall.at = "called"
  /\ routeCall' =
       IF routeCall.stops < 2
       THEN [routeCall EXCEPT !.at = "done",
                              !.outcome = "At least 2 points are required for routing."]
       ELSE [routeCall EXCEPT
               !.at = "first",
               !.trips = IF routeCall.optimizeOrder /\ routeCall.stops > 2
                            /\ routeCall.mode # CURVY
                         THEN 1 ELSE 0,
               !.fetches = <<fetchRoute(routeCall.stops, routeCall.mode)>>]
  /\ UNCHANGED <<displayTraced, angleCall, trackCall, gpsVars, riderVars, fed,
                 currentManeuverRemainingRef, now, renderVars, errorMessage,
                 currentSegmentIndexRef, detectorVars, pendingPlans, simVars, fixHistory, ev>>

\* the first route request settles: try, catch, and when no second request
\* is sent the checks of the answer
FirstAnswer ==
  \E answer \in FetchOutcomes :
    /\ routeCall.at = "first"
    /\ routeCall' =
         IF Failed(answer)
         THEN IF Retried(routeCall.mode)
              THEN [routeCall EXCEPT
                      !.at = "retry",
                      !.answers = Append(@, answer),
                      !.usedMode = BALANCED,
                      !.fetches = Append(@, fetchRoute(routeCall.stops, BALANCED))]
              ELSE [routeCall EXCEPT !.at = "done", !.answers = Append(@, answer),
                                     !.outcome = "thrown"]
         ELSE [routeCall EXCEPT !.at = "done", !.answers = Append(@, answer),
                                !.outcome = Concluded(answer)]
    /\ UNCHANGED <<displayTraced, angleCall, trackCall, gpsVars, riderVars, fed,
                   currentManeuverRemainingRef, now, renderVars, errorMessage,
                   currentSegmentIndexRef, detectorVars, pendingPlans, simVars, fixHistory,
                   ev>>

\* the second route request settles: a throw leaves calculateRoute, an
\* answer is checked
RetryAnswer ==
  \E answer \in FetchOutcomes :
    /\ routeCall.at = "retry"
    /\ routeCall' =
         [routeCall EXCEPT
            !.at = "done",
            !.answers = Append(@, answer),
            !.outcome = IF answer = "rejected" THEN "thrown" ELSE Concluded(answer)]
    /\ UNCHANGED <<displayTraced, angleCall, trackCall, gpsVars, riderVars, fed,
                   currentManeuverRemainingRef, now, renderVars, errorMessage,
                   currentSegmentIndexRef, detectorVars, pendingPlans, simVars, fixHistory,
                   ev>>

RouteNext == CallCalculateRoute \/ FirstAnswer \/ RetryAnswer

RouteSpec == RouteInit /\ [][RouteNext]_vars

\* The geolocation requests and their outcomes: the watch, the permission
\* probe and the permission request, on a free ride.
LocationNext ==
  \/ GpsFix(HomeFixes)
  \/ WatchError
  \/ ProbeTimer
  \/ ProbeSuccess
  \/ ProbeError
  \/ requestGPSPermission
  \/ GpsPosition(HomeFixes)
  \/ GpsRejected
  \/ StartRide
  \/ StopNavigation

LocationSpec == DisplayInit /\ [][LocationNext]_vars

\* the routes of the rides with markers: the one that is simulated, and one
\* a recalculation answers with
PopupRoutes == SimRoutes \cup {2}

\* A simulated ride through a waypoint, with the markers of the map.
PopupNext ==
  \/ Render
  \/ addWaypoint
  \/ selectSuggestion
  \/ handlePlanRide
  \/ PlanSuccess(PopupRoutes)
  \/ PlanFailure
  \/ startSimulation
  \/ SimFrame(CruiseSpeeds)
  \/ StopNavigation
  \/ popupRemoveWaypoint

PopupSpec == Init /\ [][PopupNext]_vars

\* The stop list under its handlers, called with any index.
ListNext ==
  \/ addWaypoint
  \/ \E index \in Indices : removeWaypoint(index)
  \/ \E fromIndex, toIndex \in Indices : moveWaypoint(fromIndex, toIndex)
  \/ selectSuggestion
  \/ onInputChange

ListSpec == Init /\ [][ListNext]_vars

\* The maneuver tracker: live rides on the routes it is followed on.
TrackNext ==
  \/ GpsFix(TrackFixes)
  \/ Render
  \/ StartRide
  \/ selectSuggestion
  \/ handlePlanRide
  \/ PlanSuccess(TrackRoutes)

TrackSpec == DisplayInit /\ [][TrackNext]_vars

\* ------------------------------------------------------------------ claims
\* the heading, speed and progress samples the tracker is tried on
HeadingSamples == {NoHeading, 0, 90, 180}
ProgressSamples == {0, 950, 1300, 2000}

\* C1: the active maneuver index is in 0..lastIndex whenever a route index
\* exists, so after any fix; and from a start index outside that range the
\* tracker still computes an index inside it.
C1_ActiveIndexInRange ==
  maneuverMetaRef # <<>> =>
    /\ currentManeuverIndexRef \in 0..(Len(maneuverMetaRef) - 1)
    /\ \A start \in {0 - 2, 0 - 1, Len(maneuverMetaRef), Len(maneuverMetaRef) + 1},
          progressDist \in ProgressSamples, anyHeading \in HeadingSamples, newSpeed \in Speeds :
         ActiveIndex(start, maneuverMetaRef, progressDist, anyHeading, newSpeed)
           \in 0..(Len(maneuverMetaRef) - 1)

\* a fix was tracked with the index on the last of three maneuvers
C1_Witness ==
  /\ ev.op = "fix"
  /\ Len(maneuverMetaRef) = 3
  /\ currentManeuverIndexRef = Len(maneuverMetaRef) - 1

\* C2: at most one reroute request is outstanding at any time.
C2_OneRerouteInFlight == Len(pendingReroutes) <= 1

\* a far fix was tracked with three strikes or more while a request was in
\* flight, and no second request was sent
C2_Witness ==
  /\ ev.op = "fix" /\ ev.far /\ ~ev.issued
  /\ offRouteCounterRef >= 3
  /\ reroutingRef
  /\ Len(pendingReroutes) = 1

\* C3: any two reroute requests are initiated more than 15 s apart.
C3_RerouteCooldown ==
  \A i, j \in 1..Len(rerouteLog) : i < j => rerouteLog[j] - rerouteLog[i] > 15000

\* a second reroute request was sent
C3_Witness ==
  /\ ev.op = "fix" /\ ev.issued
  /\ Len(rerouteLog) = 2

\* C4 as stated: a tracked fix issues a reroute request exactly when the
\* strikes have reached 3, the cooldown has passed and no request is in
\* flight; the flag and the timestamp are set by then.
C4_AsStated ==
  [][ev'.op = "fix" =>
       LET strikes == IF ev'.far THEN offRouteCounterRef + 1 ELSE 0
           issued == Len(pendingReroutes') = Len(pendingReroutes) + 1
       IN  /\ issued <=> /\ strikes >= 3
                         /\ ~reroutingRef
                         /\ now - lastRerouteTimeRef > 15000
           /\ issued => reroutingRef' /\ lastRerouteTimeRef' = now]_vars

\* C4: a tracked fix issues a reroute request exactly when the strikes have
\* reached 3, the cooldown has passed, no request is in flight and a stop
\* after the start has a coordinate to route to; the flag and the timestamp
\* are set by then.
C4_RerouteIssuedWhenDue ==
  [][ev'.op = "fix" =>
       LET strikes == IF ev'.far THEN offRouteCounterRef + 1 ELSE 0
           issued == Len(pendingReroutes') = Len(pendingReroutes) + 1
       IN  /\ issued <=> /\ strikes >= 3
                         /\ ~reroutingRef
                         /\ now - lastRerouteTimeRef > 15000
                         /\ \E i \in 2..Len(stops) : stops[i].coord # NoCoord
           /\ issued => reroutingRef' /\ lastRerouteTimeRef' = now]_vars

\* a fix has just sent a reroute request
C4_Witness ==
  /\ ev.op = "fix" /\ ev.issued
  /\ offRouteCounterRef >= 3
  /\ reroutingRef
  /\ lastRerouteTimeRef = now
  /\ Len(pendingReroutes) = 1

C7_RouteAndIndexTogether ==
  /\ polylineDistancesRef = PolylineDistances(routeRef)
  /\ maneuverMetaRef = ManeuverMeta(routeRef)
  /\ ev.op = "success" => currentSegmentIndexRef = 1
  /\ ev.op = "routeEffect" => currentManeuverIndexRef = 0 /\ currentManeuverIndex = 0

\* the route of a successful reroute has just been rendered during navigation
C7_Witness ==
  /\ ev.op = "routeEffect"
  /\ appStatusRef = NAVIGATING
  /\ rerouteLog # <<>> /\ pendingReroutes = <<>>
  /\ errorMessage = NoError
  /\ routeRef \in RideRoutes

\* C8: when a reroute request fails the error is shown, the route and its
\* index stay as they were, the in-flight flag is cleared and the status is
\* NAVIGATING.
C8_RerouteFailure ==
  [][ev'.op = "failure" =>
       /\ errorMessage' = "Route recalculation failed."
       /\ reroutingRef' = FALSE
       /\ appStatus' = NAVIGATING
       /\ UNCHANGED <<route, routeRef, polylineDistancesRef, maneuverMetaRef,
                      currentManeuverIndexRef, currentManeuverIndex>>]_vars

\* after a failed reroute a later fix has sent a second request
C8_Witness ==
  /\ errorMessage = "Route recalculation failed."
  /\ Len(rerouteLog) = 2
  /\ reroutingRef
  /\ Len(pendingReroutes) = 1

\* C9 as stated: the points of a reroute request hold no stop the rider has
\* already gone past.
C9_AsStated ==
  (ev.op = "fix" /\ ev.issued) =>
    LET points == pendingReroutes[Len(pendingReroutes)]
        line == RouteData(routeRef).polyline
        snap == getNearestPointOnLine(points[1], line)
        progressDist == polylineDistancesRef[snap.segmentIndex]
                          + getDistanceMeters(line[snap.segmentIndex], snap.point)
    IN  \A k \in 2..Len(points) :
          points[k] \notin PassedStops(stops, line, polylineDistancesRef, progressDist)

\* C10: a frame callback is pending only while the simulation is on: the stop
\* button and the arrival leave none behind.
C10_NoFrameAfterStop == rafPending # {} => isSimulating /\ appStatus = NAVIGATING

\* the simulation was stopped on its way, and no callback is pending
C10_Witness ==
  /\ simIntervalRef # 0
  /\ distanceRef = SPEED_FACTOR
  /\ ~isSimulating /\ appStatus = IDLE
  /\ rafPending = {}

\* C11 as stated: right after the stop button the route, the route index, the
\* active maneuver index, the strike counter, the reroute timestamp and the
\* in-flight flag are what they were before any session.
C11_AsStated ==
  ev.op = "stop" =>
    /\ route = NoRoute /\ routeRef = NoRoute
    /\ polylineDistancesRef = <<>> /\ maneuverMetaRef = <<>>
    /\ currentManeuverIndexRef = 0 /\ currentManeuverIndex = 0
    /\ offRouteCounterRef = 0 /\ lastRerouteTimeRef = 0 /\ reroutingRef = FALSE

\* C12 as stated: a reroute request that settles while the status is not
\* NAVIGATING (the ride was stopped) leaves the route and the status alone.
C12_AsStated ==
  [][(ev'.op \in {"success", "failure"} /\ appStatus # NAVIGATING /\ appStatusRef # NAVIGATING)
       => route' = route /\ appStatus' = appStatus]_vars

\* C13 (as stated): only one producer of fixes is active at a time: while
\* the simulator is active no fix of the location watch or of the permission
\* request is fed into updateRiderLocation, and while the simulator is not
\* active no frame of the simulator feeds it.  The request of the permission
\* banner never looks at isSimulating, so its fix arrives in a simulation.
C13_AsStated ==
  [][/\ (isSimulating /\ isSimulating' /\ fed' # fed) => fed'.by = "sim"
     /\ (~isSimulating /\ ~isSimulating' /\ fed' # fed) => fed'.by # "sim"]_vars

\* C14: the throttle.  Position and speed are committed at most once per
\* 100 ms: any two commits, one after the other, happen at times of fix
\* handling at least 100 ms apart, however many fixes arrive in between.
C14_CommitsThrottled ==
  \A i \in 1..(Len(commitLog) - 1) : commitLog[i + 1] - commitLog[i] >= 100

\* two commits exactly 100 ms apart, and a later fix of the same instant that
\* is held back in the pending cells
C14_Witness ==
  /\ Len(commitLog) = 2
  /\ commitLog[2] - commitLog[1] = 100
  /\ now = commitLog[2]
  /\ pendingPosRef # currentPos

\* C15 (as stated): in live mode a fix whose speed is below 3 km/h leaves
\* the committed heading as it is, whether or not the gate of the throttle
\* opens on it.  (All fixes of the display behaviours are live ones.)  The
\* code keeps the pending heading on such a fix, but once the gate opens it
\* still moves the committed heading towards that pending heading.
C15_AsStated ==
  [][(pendingSpeedRef' # NoSpeed /\ pendingSpeedRef' < 3
        /\ <<pendingPosRef, pendingSpeedRef, lastStateUpdateTimeRef>>'
              # <<pendingPosRef, pendingSpeedRef, lastStateUpdateTimeRef>>)
       => heading' = heading]_vars

\* C16: monotone distances.  For every route, with anchors that snap to a
\* vertex before that of the maneuver before them and with maneuvers without
\* an anchor among anchored ones, the cumulative distances do not decrease
\* along the polyline and distanceAlong does not decrease from one maneuver
\* to the next.
C16_DistancesMonotone ==
  /\ \A i \in 1..(Len(polylineDistancesRef) - 1) :
        polylineDistancesRef[i] <= polylineDistancesRef[i + 1]
  /\ \A i \in 1..(Len(maneuverMetaRef) - 1) :
        maneuverMetaRef[i].distanceAlong <= maneuverMetaRef[i + 1].distanceAlong

\* the index of route 7: the third maneuver is anchored at a vertex before
\* that of the second, the fourth has no anchor and scales to a place behind
\* the third; both are held at the distance of the second
C16_Witness ==
  /\ routeRef = 7
  /\ Len(maneuverMetaRef) = 5
  /\ maneuverMetaRef[3].polylineIndex < maneuverMetaRef[2].polylineIndex
  /\ maneuverMetaRef[3].distanceAlong = maneuverMetaRef[2].distanceAlong
  /\ RouteData(routeRef).maneuvers[4].location = NoCoord
  /\ maneuverMetaRef[4].distanceAlong = maneuverMetaRef[2].distanceAlong
  /\ polylineDistancesRef[2] = polylineDistancesRef[3]

\* C17: a route with fewer than two polyline points or with no maneuvers has
\* an empty index (no maneuver meta); every other route has one meta entry
\* per maneuver and one cumulative distance per polyline point.
C17_IndexShape ==
  routeRef # NoRoute =>
    LET routeData == RouteData(routeRef)
    IN  IF Len(routeData.polyline) < 2 \/ Len(routeData.maneuvers) = 0
        THEN maneuverMetaRef = <<>>
        ELSE /\ Len(maneuverMetaRef) = Len(routeData.maneuvers)
             /\ Len(polylineDistancesRef) = Len(routeData.polyline)

\* a ride on a route with six points and five maneuvers, indexed in full
C17_Witness ==
  /\ appStatusRef = NAVIGATING
  /\ routeRef # NoRoute
  /\ Len(RouteData(routeRef).polyline) = 6
  /\ Len(polylineDistancesRef) = 6
  /\ Len(maneuverMetaRef) = 5

\* C18: without a route index (a polyline of no or one point, or no
\* maneuvers) a fix handled while navigating leaves the active maneuver,
\* the published remaining metres, the strike counter, the reroute timestamp
\* and the in-flight flag as they are and sends no reroute request, while
\* the pending position is that of the fix (moved onto the line where there
\* is one) and is committed when the gate of the throttle is open.
C18_NoIndexFixSkipsTracking ==
  [][(/\ GpsFix(DisplayFixes)
      /\ appStatusRef = NAVIGATING
      /\ routeRef # NoRoute
      /\ \/ Len(RouteData(routeRef).polyline) < 2
         \/ RouteData(routeRef).maneuvers = <<>>)
       => /\ UNCHANGED <<currentManeuverIndexRef, currentManeuverIndex,
                         currentManeuverRemainingRef, offRouteCounterRef,
                         lastRerouteTimeRef, reroutingRef, pendingReroutes>>
          /\ fed'.by = "watch"
          /\ pendingPosRef'
               = getNearestPointOnLine(fed'.pos, RouteData(routeRef).polyline).point
          /\ lastPosRef' = pendingPosRef'
          /\ (now - lastStateUpdateTimeRef >= 100)
               => currentPos' = pendingPosRef' /\ speed' = pendingSpeedRef']_vars

\* on route 5 (no maneuvers) a fix 50 m off the end of the line at 20 km/h,
\* further than its off-route threshold, has been moved onto the line and
\* committed; nothing is counted, published or requested
C18_Witness ==
  /\ appStatusRef = NAVIGATING
  /\ routeRef = 5
  /\ maneuverMetaRef = <<>>
  /\ fed = [by |-> "watch", pos |-> Pt(1300, 400)]
  /\ pendingPosRef = Pt(1000, 0)
  /\ currentPos = Pt(1000, 0)
  /\ getDistanceMeters(fed.pos, currentPos) > getOffRouteThreshold(speed)
  /\ offRouteCounterRef = 0
  /\ currentManeuverRemainingRef = NoRemaining
  /\ pendingReroutes = <<>>

\* p lies on the segment from a to b
OnSegment(p, a, b) ==
  /\ (b.lng - a.lng) * (p.lat - a.lat) = (b.lat - a.lat) * (p.lng - a.lng)
  /\ Min(a.lat, b.lat) <= p.lat /\ p.lat <= Max(a.lat, b.lat)
  /\ Min(a.lng, b.lng) <= p.lng /\ p.lng <= Max(a.lng, b.lng)

\* points on a polyline: the ends of every segment and the points a quarter
\* and half way along it
SamplePoints(line) ==
  UNION {{line[i], line[i + 1], interpolate(line[i], line[i + 1], 1, 2),
          interpolate(line[i], line[i + 1], 1, 4)} : i \in 1..(Len(line) - 1)}

\* the snap of p is p itself, on a segment of the line that holds p
SnapKeeps(p, line) ==
  LET snap == getNearestPointOnLine(p, line)
  IN  /\ snap.point = p
      /\ snap.segmentIndex \in 1..(Len(line) - 1)
      /\ OnSegment(p, line[snap.segmentIndex], line[snap.segmentIndex + 1])

\* C19: the snap is idempotent.  A point that lies on a segment of the
\* polyline is returned as it is, with the index of a segment that holds
\* it, also next to segments of no length and at a vertex two segments
\* share: for the sample points of the route ridden, and for the fix of the
\* watch that lies on the line, whose pending position and segment are the
\* ones the handler stores.
C19_SnapIdempotent ==
  [][(GpsFix(IndexFixes) /\ appStatusRef = NAVIGATING /\ routeRef # NoRoute)
       => LET line == RouteData(routeRef).polyline
          IN  /\ \A p \in SamplePoints(line) : SnapKeeps(p, line)
              /\ (\E i \in 1..(Len(line) - 1) : OnSegment(fed'.pos, line[i], line[i + 1]))
                   => /\ pendingPosRef' = fed'.pos
                      /\ currentSegmentIndexRef' \in 1..(Len(line) - 1)
                      /\ OnSegment(fed'.pos, line[currentSegmentIndexRef'],
                                   line[currentSegmentIndexRef' + 1])]_vars

\* on route 7 a fix at the corner (130 m, 0), the end of the segment that
\* follows the one of no length and the start of the next, keeps its place
\* and is put on the first of the two
C19_Witness ==
  /\ appStatusRef = NAVIGATING
  /\ routeRef = 7
  /\ fed = [by |-> "watch", pos |-> Pt(1300, 0)]
  /\ pendingPosRef = Pt(1300, 0)
  /\ currentSegmentIndexRef = 3
  /\ RouteData(routeRef).polyline[2] = RouteData(routeRef).polyline[3]

\* speeds around every edge of the table, and far outside it
SpeedSamples ==
  {0 - 1000, 0 - 5, 0, 1, 9, 10, 11, 29, 30, 31, 59, 60, 61, 200, 100000}

\* the table of the thresholds: <<advance m, bearing degrees, off-route m>>
ThresholdTable(speedKmh) ==
  IF speedKmh <= 10 THEN <<20, 70, 25>>
  ELSE IF speedKmh <= 30 THEN <<30, 55, 35>>
  ELSE IF speedKmh <= 60 THEN <<50, 45, 55>>
  ELSE <<80, 35, 80>>

\* C20: the thresholds follow the table at every speed, negative, zero or
\* very large (the model keeps metres in decimetres), the advance and the
\* off-route threshold do not fall as the speed grows and the bearing
\* threshold does not rise; this holds for the speed of every fix handled.
C20_ThresholdsTotalMonotone ==
  /\ \A s \in SpeedSamples \cup {pendingSpeedRef} :
        /\ getAdvanceThreshold(s) = 10 * ThresholdTable(s)[1]
        /\ getBearingThreshold(s) = ThresholdTable(s)[2]
        /\ getOffRouteThreshold(s) = 10 * ThresholdTable(s)[3]
  /\ \A s, t \in SpeedSamples \cup {pendingSpeedRef} :
        s <= t => /\ getAdvanceThreshold(s) <= getAdvanceThreshold(t)
                  /\ getOffRouteThreshold(s) <= getOffRouteThreshold(t)
                  /\ getBearingThreshold(s) >= getBearingThreshold(t)

\* on route 7 a fix at 70 km/h, 70 m north of the last segment, is taken
\* as on the route: it is within the threshold of the bucket above 60 km/h
\* and beyond that of the bucket up to 60 km/h
C20_Witness ==
  /\ appStatusRef = NAVIGATING
  /\ routeRef = 7
  /\ fed = [by |-> "watch", pos |-> Pt(1650, 1100)]
  /\ pendingPosRef = Pt(1650, 400)
  /\ pendingSpeedRef = 70
  /\ ev.op = "fix" /\ ~ev.far
  /\ offRouteCounterRef = 0
  /\ getDistanceMeters(fed.pos, pendingPosRef) > 10 * ThresholdTable(60)[3]
  /\ getDistanceMeters(fed.pos, pendingPosRef) <= 10 * ThresholdTable(pendingSpeedRef)[3]

\* the progress along the route of the fix a step has handled
ProgressAfter ==
  polylineDistancesRef[currentSegmentIndexRef']
    + getDistanceMeters(RouteData(routeRef).polyline[currentSegmentIndexRef'], pendingPosRef')

\* C21: advance on a bearing match.  On a route with two maneuvers 100 m
\* apart, the first of them active, a fix 5 m before it at 20 km/h (advance
\* threshold 30 m, bearing threshold 55 degrees) whose heading is the exit
\* bearing of that maneuver moves the active index on; the same fix with a
\* heading 90 degrees off leaves the index where it is.
C21_AdvanceOnBearingMatch ==
  [][(/\ GpsFix(TrackFixes)
      /\ appStatusRef = NAVIGATING
      /\ Len(maneuverMetaRef) = 2
      /\ maneuverMetaRef[2].distanceAlong - maneuverMetaRef[1].distanceAlong = 1000
      /\ currentManeuverIndexRef = 0
      /\ pendingSpeedRef' = 20
      /\ ProgressAfter = maneuverMetaRef[1].distanceAlong - 50)
       => /\ getAdvanceThreshold(20) = 300 /\ getBearingThreshold(20) = 55
          /\ pendingHeadingRef' = maneuverMetaRef[1].postBearing
               => currentManeuverIndexRef' = 1 /\ currentManeuverIndex' = 1
          /\ getBearingDelta(pendingHeadingRef', maneuverMetaRef[1].postBearing) = 90
               => currentManeuverIndexRef' = 0]_vars

\* on route 8 the fix 5 m before the first maneuver, heading east as the
\* line does after it, has made the second maneuver the active one
C21_Witness ==
  /\ appStatusRef = NAVIGATING
  /\ routeRef = 8
  /\ ev.op = "fix" /\ ev.was = 0
  /\ fed = [by |-> "watch", pos |-> Pt(950, 0)]
  /\ pendingHeadingRef = maneuverMetaRef[1].postBearing
  /\ pendingSpeedRef = 20
  /\ currentManeuverIndexRef = 1

\* the index the advance step starts from on the fix a step has handled: the
\* index of the ref, clamped, after the forward skip and the backtrack
CorrectedIndex ==
  LET meta == maneuverMetaRef
      clamped == Min(Max(currentManeuverIndexRef, 0), Len(meta) - 1)
      advanceThreshold == getAdvanceThreshold(pendingSpeedRef')
  IN  Backtrack(meta, SkipPast(meta, clamped, ProgressAfter, advanceThreshold + 150),
                ProgressAfter, advanceThreshold + 300)

\* the rule of the advance: the maneuver lies 10 m or more behind, or it is
\* within the advance threshold and the heading is within the bearing
\* threshold of its exit bearing
AdvanceRule(index) ==
  LET distanceToManeuver == maneuverMetaRef[index + 1].distanceAlong - ProgressAfter
  IN  \/ distanceToManeuver <= 0 - 100
      \/ /\ distanceToManeuver <= getAdvanceThreshold(pendingSpeedRef')
         /\ pendingHeadingRef' # NoHeading
         /\ getBearingDelta(pendingHeadingRef', maneuverMetaRef[index + 1].postBearing)
              <= getBearingThreshold(pendingSpeedRef')

\* a step handles a fix of the watch that is tracked
TrackedFix ==
  /\ GpsFix(TrackFixes)
  /\ appStatusRef = NAVIGATING
  /\ routeRef # NoRoute
  /\ maneuverMetaRef # <<>>

\* C22 (as stated): from the skip-corrected index the active index moves on
\* by one exactly when the maneuver has been passed by 10 m, whatever the
\* heading, or is within the advance threshold with a bearing match.
C22_AsStated ==
  [][TrackedFix
       => currentManeuverIndexRef'
            = IF AdvanceRule(CorrectedIndex) THEN CorrectedIndex + 1 ELSE CorrectedIndex]_vars

\* C22 (corrected): the same, but the index never moves on from the last
\* maneuver: there the advance step leaves it, passed or not.
C22_AdvanceDecision ==
  [][TrackedFix
       => currentManeuverIndexRef'
            = IF AdvanceRule(CorrectedIndex) /\ CorrectedIndex < Len(maneuverMetaRef) - 1
              THEN CorrectedIndex + 1
              ELSE CorrectedIndex]_vars

\* on route 8 a fix 15 m past the first maneuver, heading west against its
\* exit bearing, has moved the index on to the second
C22_Witness ==
  /\ appStatusRef = NAVIGATING
  /\ routeRef = 8
  /\ ev.op = "fix" /\ ev.was = 0
  /\ fed = [by |-> "watch", pos |-> Pt(1150, 0)]
  /\ pendingHeadingRef = 270
  /\ getBearingDelta(pendingHeadingRef, maneuverMetaRef[1].postBearing) = 180
  /\ currentManeuverIndexRef = 1

\* the forward skip from index start stops at index skipped: every maneuver
\* it went over lies more than the threshold behind, and the one it stops
\* at is the last or does not
SkipStops(meta, start, skipped, progressDist, skipPastThreshold) ==
  /\ skipped \in start..(Len(meta) - 1)
  /\ \A j \in start..(skipped - 1) :
        progressDist - meta[j + 1].distanceAlong > skipPastThreshold
  /\ \/ skipped = Len(meta) - 1
     \/ progressDist - meta[skipped + 1].distanceAlong <= skipPastThreshold

\* C23: the forward skip.  On a tracked fix the active index is moved on
\* while the progress is more than the advance threshold + 15 m beyond the
\* active maneuver; the loop ends, at the last index or at a maneuver that
\* is not that far behind, for the fix handled and for every start index,
\* progress and speed on the index table of the route.
C23_ForwardSkip ==
  [][TrackedFix
       => LET meta == maneuverMetaRef
              clamped == Min(Max(currentManeuverIndexRef, 0), Len(meta) - 1)
              skipPastThreshold == getAdvanceThreshold(pendingSpeedRef') + 150
          IN  /\ SkipStops(meta, clamped,
                           SkipPast(meta, clamped, ProgressAfter, skipPastThreshold),
                           ProgressAfter, skipPastThreshold)
              /\ \A start \in 0..(Len(meta) - 1), progressDist \in ProgressSamples,
                    newSpeed \in Speeds :
                    SkipStops(meta, start,
                              SkipPast(meta, start, progressDist,
                                       getAdvanceThreshold(newSpeed) + 150),
                              progressDist, getAdvanceThreshold(newSpeed) + 150)]_vars

\* on route 1, with the first of three maneuvers active, a fix at the end of
\* the line has skipped the first two
C23_Witness ==
  /\ appStatusRef = NAVIGATING
  /\ routeRef = 1
  /\ Len(maneuverMetaRef) = 3
  /\ ev.op = "fix" /\ ev.was = 0
  /\ fed = [by |-> "watch", pos |-> Pt(2000, 0)]
  /\ currentManeuverIndexRef = 2
  /\ SkipPast(maneuverMetaRef, ev.was, 2000, getAdvanceThreshold(pendingSpeedRef) + 150) = 2

\* the remaining metres to the active maneuver after the fix a step has
\* handled
RemainingAfter ==
  Max(0, maneuverMetaRef[currentManeuverIndexRef' + 1].distanceAlong - ProgressAfter)

\* C24: the remaining metres are max(0, distanceAlong of the active
\* maneuver - progress), never negative; a tracked fix publishes them if and
\* only if nothing is published yet, or they differ by 10 m or more from the
\* published value, or the active index changed on that fix, so that with
\* the index unchanged the published value is less than 10 m from them.
C24_RemainingPublished ==
  [][TrackedFix
       => /\ RemainingAfter >= 0
          /\ currentManeuverRemainingRef'
               = IF \/ currentManeuverRemainingRef = NoRemaining
                    \/ Abs(currentManeuverRemainingRef - RemainingAfter) >= 100
                    \/ currentManeuverIndexRef' # currentManeuverIndexRef
                 THEN RemainingAfter
                 ELSE currentManeuverRemainingRef
          /\ currentManeuverRemainingRef' >= 0
          /\ currentManeuverIndexRef' = currentManeuverIndexRef
               => Abs(currentManeuverRemainingRef' - RemainingAfter) < 100]_vars

\* on route 8 a fix at the first maneuver, heading against it, leaves the
\* index and the 5 m published by the fix before it: the remaining metres
\* are 0 now, less than 10 m from the published ones
C24_Witness ==
  /\ appStatusRef = NAVIGATING
  /\ routeRef = 8
  /\ ev.op = "fix" /\ ev.was = 0
  /\ fed = [by |-> "watch", pos |-> Pt(1000, 0)]
  /\ currentManeuverIndexRef = 0
  /\ maneuverMetaRef[1].distanceAlong = 1000
  /\ currentManeuverRemainingRef = 50

\* a step handles a fix of the simulator (every one is further along)
SimFix == fed'.by = "sim" /\ fed' # fed

\* C25: end to end.  On a straight polyline of three points with a maneuver
\* at the point in the middle (and the arrival after it), simulated at a
\* constant speed, the active index goes from 0 to 1 on a fix within one
\* advance threshold of the middle, it is 1 once the middle is crossed and
\* never goes back, and before that the remaining metres fall from every
\* fix to the next while the published ones never rise.
C25_EndToEnd ==
  [][(/\ SimFix
      /\ Len(RouteData(routeRef).polyline) = 3
      /\ Len(maneuverMetaRef) = 2)
       => LET middle == maneuverMetaRef[1].distanceAlong
          IN  /\ middle = polylineDistancesRef[2]
              /\ currentManeuverIndexRef' \in {0, 1}
              /\ currentManeuverIndexRef' >= currentManeuverIndexRef
              /\ (currentManeuverIndexRef = 0 /\ currentManeuverIndexRef' = 1)
                   => Abs(middle - ProgressAfter) <= 10 * ThresholdTable(pendingSpeedRef')[1]
              /\ currentManeuverIndexRef' = 0 => ProgressAfter < middle
              /\ (currentManeuverIndexRef' = 0 /\ fed.by = "sim")
                   => /\ RemainingAfter < Max(0, middle - distanceRef)
                      /\ currentManeuverRemainingRef' <= currentManeuverRemainingRef]_vars

\* on route 9 at 20 km/h the fix 10.4 m along, the first within 30 m of the
\* middle at 40 m, has moved the index from 0 to 1
C25_Witness ==
  /\ appStatusRef = NAVIGATING
  /\ routeRef = 9
  /\ fed.by = "sim"
  /\ ev.op = "fix" /\ ev.was = 0
  /\ currentManeuverIndexRef = 1
  /\ distanceRef = 104
  /\ pendingSpeedRef = 20

\* The steps of the user: the buttons and inputs of the panels.
UserAction ==
  \/ StopNavigation
  \/ StartRide
  \/ Adjust
  \/ onInputChange
  \/ selectSuggestion
  \/ addWaypoint
  \/ handlePlanRide
  \/ startSimulation
  \/ requestGPSPermission

\* a simulation is running: its frame callback is requested
SimulationRunning == rafPending # {} /\ simClosure # NoClosure

\* the frame step whose distance travelled reaches the length of the route
ArrivalStep ==
  /\ distanceRef' # distanceRef
  /\ simClosure # NoClosure
  /\ distanceRef' >= PolylineLength(simClosure.route)
  /\ SimFrame(CruiseSpeeds)

C27_ArrivalBySimulatorOnly ==
  /\ [][(appStatus' = ARRIVED /\ appStatus # ARRIVED) => ArrivalStep]_vars
  /\ [][(appStatus' = ARRIVED /\ appStatus # ARRIVED) => ~GpsFix(EndFixes)]_vars

\* a live fix at the destination, with the last maneuver active before and
\* after it: the ride goes on
C27_Witness ==
  /\ fed = [by |-> "watch", pos |-> Pt(800, 0)]
  /\ ev.op = "fix"
  /\ routeRef \in CruiseRoutes
  /\ ev.was = Len(maneuverMetaRef) - 1
  /\ currentManeuverIndexRef = Len(maneuverMetaRef) - 1
  /\ appStatus = NAVIGATING

\* the angles of a full turn, in whole degrees
Angles == 0..359

\* getBearingDelta and smoothAngle on every pair of whole angles
AngleLaws ==
  \A a \in Angles, b \in Angles :
    /\ getBearingDelta(a, b) = getBearingDelta(b, a)
    /\ getBearingDelta(a, b) \in 0..180
    /\ smoothAngle(a, b, 100) = b * 100
    /\ \A factor \in Factors : smoothAngle(a, b, factor) \in 0..35999

\* C28: getBearingDelta(350, 10) is 20 and smoothAngle(350, 10, 1) is 10; for
\* all whole angles a, b of [0, 360) getBearingDelta(a, b) is symmetric and
\* lies in [0, 180], smoothAngle(a, b, 1) is b, and smoothAngle returns a
\* value of [0, 360) (results of smoothAngle are in hundredths of a degree).
C28_AngleFunctions ==
  /\ getBearingDelta(350, 10) = 20
  /\ smoothAngle(350, 10, 100) = 10 * 100
  /\ AngleLaws
  /\ angleCall.delta # NoHeading =>
        /\ angleCall.delta = getBearingDelta(angleCall.target, angleCall.current)
        /\ angleCall.delta \in 0..180
  /\ angleCall.smoothed # NoHeading =>
        /\ angleCall.smoothed \in 0..35999
        /\ angleCall.factor = 100 => angleCall.smoothed = angleCall.target * 100

C28_Witness ==
  angleCall = [current |-> 350, target |-> 10, factor |-> 100, smoothed |-> 1000,
               delta |-> 20]

\* a geolocation request delivered a position: a fix of the watch, the
\* position of the probe, or that of the permission request
PositionDelivered == GpsFix(HomeFixes) \/ ProbeSuccess \/ GpsPosition(HomeFixes)

\* a geolocation request reported an error: the watch, the probe, or the
\* permission request
LocationError == WatchError \/ ProbeError \/ GpsRejected

\* C29: a location error other than PERMISSION_DENIED (position unavailable,
\* timeout) changes neither gpsActive nor gpsPermissionDenied and leaves the
\* watch subscribed and the ride as it is; gpsPermissionDenied is set by a
\* PERMISSION_DENIED error only, and once set it is cleared only by a step
\* that delivers a position.
C29_LocationErrors ==
  /\ [][(LocationError /\ ev'.op \in {"unavailable", "timeout"}) =>
          UNCHANGED <<gpsActive, gpsPermissionDenied, renderedIsSimulating, isSimulating,
                      appStatus, appStatusRef>>]_vars
  /\ [][(gpsPermissionDenied' /\ ~gpsPermissionDenied) =>
          (LocationError /\ ev'.op = "denied")]_vars
  /\ [][(gpsPermissionDenied /\ ~gpsPermissionDenied') => PositionDelivered]_vars

\* the watch timed out on a ride with GPS active: the flags stay
C29_Witness ==
  /\ ev.op = "timeout"
  /\ gpsActive
  /\ ~gpsPermissionDenied
  /\ appStatus = NAVIGATING
  /\ probe.requests = 0

\* C30: when the route request of a plan fails, an error message is set, the
\* status becomes IDLE (neither CONFIRM nor NAVIGATING) and the route is the
\* one there was before: nothing of the failed request is installed.
C30_PlanFailure ==
  [][PlanFailure =>
       /\ errorMessage' # NoError
       /\ appStatus' = IDLE
       /\ appStatus' \notin {CONFIRM, NAVIGATING}
       /\ route' = route
       /\ UNCHANGED <<routeRef, polylineDistancesRef, maneuverMetaRef>>]_vars

\* the request of a plan has just failed: the preview is still rendered
C30_Witness ==
  /\ errorMessage = "Route calculation failed."
  /\ appStatus = IDLE
  /\ appStatusRef = PREVIEW
  /\ pendingPlans = <<>>
  /\ route = NoRoute

\* the difference of two angles brought into (-180, 180]
WrapHalfOpen(diff) ==
  LET turned == Remainder(Remainder(diff, 360) + 360, 360)
  IN  IF turned > 180 THEN turned - 360 ELSE turned

\* C31: smoothAngle wraps the difference target - current into (-180, 180]
\* before blending: a call returns the blend of that wrapped difference, so
\* for current 180 and target 0 the difference blended is +180, not -180.
C31_AsStated ==
  angleCall.smoothed # NoHeading =>
    angleCall.smoothed =
      Remainder(angleCall.current * 100
                  + WrapHalfOpen(angleCall.target - angleCall.current) * angleCall.factor
                  + 36000, 36000)

\* progressDist of the fix handled last, where that fix was tracked
ProgressBefore ==
  polylineDistancesRef[currentSegmentIndexRef]
    + getDistanceMeters(RouteData(routeRef).polyline[currentSegmentIndexRef], pendingPosRef)

\* C32: across two consecutive tracked fixes on the same route, the progress
\* of the second not less than that of the first and both in the same speed
\* bucket, the active maneuver index does not decrease, whatever the
\* headings of the two fixes.
C32_AsStated ==
  [][(/\ ev.op = "fix"
      /\ ev'.op = "fix"
      /\ TrackedFix
      /\ routeRef' = routeRef /\ maneuverMetaRef' = maneuverMetaRef
      /\ getAdvanceThreshold(pendingSpeedRef') = getAdvanceThreshold(pendingSpeedRef)
      /\ ProgressAfter >= ProgressBefore)
       => /\ currentManeuverIndexRef' >= currentManeuverIndexRef
          /\ currentManeuverIndex' >= currentManeuverIndex]_vars

\* C33: whenever a frame callback of the simulator is pending, the status is
\* NAVIGATING: no action takes the status elsewhere and leaves the simulator
\* running.
C33_AsStated == rafPending # {} => appStatus = NAVIGATING

\* C34: when route requests overlap, a response to an older request that
\* resolves after the request sent last has settled changes neither the
\* route nor the status: what is installed in the end is the result of the
\* request sent last.
C34_AsStated ==
  /\ [][(lastIssued = "plan" /\ pendingPlans = <<>> /\ RerouteSuccess(RideRoutes))
          => UNCHANGED <<route, appStatus>>]_vars
  /\ [][(lastIssued = "reroute" /\ pendingReroutes = <<>> /\ PlanSuccess(RideRoutes))
          => UNCHANGED <<route, appStatus>>]_vars

\* the position or the speed of the fix handled last is held back in the
\* pending cells
FixPending ==
  /\ pendingPosRef # NoCoord
  /\ (currentPos # pendingPosRef \/ speed # pendingSpeedRef)

\* C35 (as stated): no fix stays pending for ever.  Whenever the fix handled
\* last is held back by the 100 ms gate, the committed position and speed
\* eventually equal those of that fix, whether or not a further fix arrives.
C35_AsStated == FixPending ~> ~FixPending

\* the values of the status the program assigns
AssignedStatuses == {IDLE, PREVIEW, CONFIRM, NAVIGATING, ARRIVED}

\* C36: the status, as set and as rendered, is always one of IDLE, PREVIEW,
\* CONFIRM, NAVIGATING and ARRIVED; it is never REROUTING or ERROR, neither
\* while a reroute request is in flight nor after a route request failed.
C36_StatusValues ==
  /\ appStatus \in AssignedStatuses
  /\ appStatusRef \in AssignedStatuses
  /\ (pendingReroutes # <<>> \/ ev.op = "failure") => appStatus \notin {REROUTING, ERROR}

\* a reroute request has just failed while the ride goes on
C36_Witness ==
  /\ ev.op = "failure"
  /\ errorMessage = "Route recalculation failed."
  /\ appStatus = NAVIGATING

\* the arrival is on the screen, with what an arrival leaves: the route
\* that was ridden, and no request in flight
ArrivedShown ==
  /\ appStatus = ARRIVED /\ appStatusRef = ARRIVED
  /\ route # NoRoute /\ routeRef = route
  /\ pendingPlans = <<>>

EndsKept(stopList) ==
  /\ Len(stopList) >= 2
  /\ stopList[1].id = "start"
  /\ stopList[Len(stopList)].id = "end"

\* C38 (as stated): under any sequence of addWaypoint, removeWaypoint and
\* moveWaypoint calls with arbitrary indices the list has at least two
\* stops, its first is the start and its last the destination; addWaypoint
\* inserts the new stop right before the destination; and a rejected remove
\* or move leaves the list as it is.
C38_AsStated ==
  /\ []EndsKept(stops)
  /\ [][addWaypoint =>
          /\ Len(stops') = Len(stops) + 1
          /\ SubSeq(stops', 1, Len(stops) - 1) = SubSeq(stops, 1, Len(stops) - 1)
          /\ stops'[Len(stops)].id = "waypoint"
          /\ stops'[Len(stops')] = stops[Len(stops)]]_vars
  /\ [][\A index \in Indices :
          (RemoveRejected(stops, index) /\ removeWaypoint(index)) => stops' = stops]_vars
  /\ [][\A fromIndex, toIndex \in Indices :
          (MoveRejected(stops, fromIndex, toIndex) /\ moveWaypoint(fromIndex, toIndex))
            => stops' = stops]_vars

\* C39 (as stated): simplifyTrack brings a track down to the target number
\* of points.  For an input longer than targetCount (targetCount >= 2) the
\* result has at most targetCount points, begins with the first point of
\* the input, ends with its last and keeps its order; a shorter input is
\* returned as it is.
C39_AsStated ==
  trackCall.done =>
    LET points == trackCall.points
        simplified == trackCall.simplified
    IN IF Len(points) > trackCall.targetCount
       THEN /\ Len(simplified) <= trackCall.targetCount
            /\ simplified[1] = points[1]
            /\ simplified[Len(simplified)] = points[Len(points)]
            /\ \A i \in 1..(Len(simplified) - 1) : simplified[i] < simplified[i + 1]
       ELSE simplified = points

\* C40: the retry logic of calculateRoute.  With fewer than 2 points it
\* fails before any request.  In the curvy mode a first route request that
\* throws or is not Ok is retried exactly once, in the balanced mode and
\* without hint points; in the other modes such a failure ends the call
\* with no retry.  So a call sends at most 2 route requests, and it returns
\* a route only when the answer it ends with is Ok with a path: a last
\* answer that is not Ok, or decodes to nothing, ends in an error.
C40_RetryLogic ==
  LET c == routeCall
      n == Len(c.answers)
  IN /\ (c.stops < 2 /\ c.at = "done")
          => c.fetches = <<>>
             /\ c.outcome = "At least 2 points are required for routing."
     /\ Len(c.fetches) <= 2
     /\ (n >= 1 /\ Failed(c.answers[1]) /\ c.mode = CURVY)
          => Len(c.fetches) = 2 /\ c.fetches[2] = [mode |-> BALANCED, hints |-> 0]
     /\ (n >= 1 /\ Failed(c.answers[1]) /\ c.mode # CURVY)
          => Len(c.fetches) = 1 /\ c.at = "done" /\ c.outcome = "thrown"
     /\ Len(c.fetches) = 2 => c.mode = CURVY /\ Failed(c.answers[1])
     /\ (c.at = "done" /\ n >= 1 /\ c.answers[n] # "Ok") => c.outcome # "route"
     /\ (c.at = "done" /\ c.outcome = "route") => n >= 1 /\ c.answers[n] = "Ok"

\* a curvy request failed, the balanced one that followed was answered with
\* a route
C40_Witness ==
  /\ routeCall.mode = CURVY
  /\ Len(routeCall.fetches) = 2
  /\ routeCall.fetches[1].hints > 0
  /\ routeCall.at = "done"
  /\ routeCall.outcome = "route"

====
